---- MODULE Spec2Model ----
(***************************************************************************)
(* A verification model of the hire-ai-backend resume engine: the skill    *)
(* matching service (SkillMatchingService), the resume extractor           *)
(* (ResumeParserService over the Groq oracle) and the batch controller     *)
(* (ResumeController.batchAnalyzeResumes).                                 *)
(*                                                                         *)
(* JavaScript strings are modelled as sequences of one-character strings,  *)
(* so that toLowerCase, includes and the code-fence pattern are computed   *)
(* character by character as the code computes them.                       *)
(***************************************************************************)
EXTENDS Integers, Sequences, FiniteSets, TLC

(***************************************************************************)
(* Strings                                                                 *)
(***************************************************************************)

\* String.prototype.toLowerCase on the ASCII letters: the upper-case letters
\* and what each maps to.
LowerOf ==
     "A" :> "a" @@ "B" :> "b" @@ "C" :> "c" @@ "D" :> "d" @@ "E" :> "e" @@ "F" :> "f" @@
     "G" :> "g" @@ "H" :> "h" @@ "I" :> "i" @@ "J" :> "j" @@ "K" :> "k" @@ "L" :> "l" @@
     "M" :> "m" @@ "N" :> "n" @@ "O" :> "o" @@ "P" :> "p" @@ "Q" :> "q" @@ "R" :> "r" @@
     "S" :> "s" @@ "T" :> "t" @@ "U" :> "u" @@ "V" :> "v" @@ "W" :> "w" @@ "X" :> "x" @@
     "Y" :> "y" @@ "Z" :> "z"

toLowerCase(s) ==
  [i \in 1..Len(s) |-> IF s[i] \in DOMAIN LowerOf THEN LowerOf[s[i]] ELSE s[i]]

\* String.prototype.includes: sub occurs in s as a contiguous substring
\* (the empty string occurs in every string).
includes(s, sub) ==
  \E i \in 0..(Len(s) - Len(sub)) : \A j \in 1..Len(sub) : s[i + j] = sub[j]

(***************************************************************************)
(* Arrays                                                                  *)
(***************************************************************************)

\* Array.prototype.slice(0, n)
slice0(a, n) == IF Len(a) <= n THEN a ELSE SubSeq(a, 1, n)

\* Array.prototype.includes
arrayIncludes(a, x) == \E i \in 1..Len(a) : a[i] = x

\* [...new Set(a)]: the elements of a, each once, in order of first appearance.
RECURSIVE uniqueInOrder(_)
uniqueInOrder(a) ==
  IF a = <<>> THEN <<>>
  ELSE LET front == uniqueInOrder(SubSeq(a, 1, Len(a) - 1))
           last == a[Len(a)]
       IN IF arrayIncludes(front, last) THEN front ELSE Append(front, last)

\* The concatenation of the arrays of a sequence of arrays (spread / flat).
RECURSIVE flat(_)
flat(as) == IF as = <<>> THEN <<>> ELSE Head(as) \o flat(Tail(as))

\* The sum of the numbers of a sequence.
RECURSIVE sum(_)
sum(ns) == IF ns = <<>> THEN 0 ELSE Head(ns) + sum(Tail(ns))

(***************************************************************************)
(* Numbers.  A JavaScript number is kept as a fraction n/d of integers;    *)
(* 0/0 is NaN and n/0 with n > 0 is Infinity, as IEEE division gives.      *)
(***************************************************************************)

Rat(n, d) == [n |-> n, d |-> d]
Num(k) == Rat(k, 1)
NaN == Rat(0, 0)
Infinity == Rat(1, 0)
isNaN(x) == x.d = 0 /\ x.n = 0
isFiniteNumber(x) == x.d > 0

\* a / b on non-negative numbers
divide(a, b) ==
  IF isNaN(a) \/ isNaN(b) THEN NaN
  ELSE IF b.n = 0 THEN (IF a.n = 0 THEN NaN ELSE Infinity)
  ELSE IF a.d = 0 THEN (IF b.d = 0 THEN NaN ELSE Infinity)
  ELSE IF b.d = 0 THEN Num(0)
  ELSE Rat(a.n * b.d, a.d * b.n)

\* a * k for an integer k > 0
times(a, k) == IF a.d = 0 THEN a ELSE Rat(a.n * k, a.d)

\* a + b on finite numbers (NaN is contagious)
plus(a, b) ==
  IF isNaN(a) \/ isNaN(b) THEN NaN
  ELSE IF a.d = 0 \/ b.d = 0 THEN Infinity
  ELSE Rat(a.n * b.d + b.n * a.d, a.d * b.d)

\* Math.min(k, a) for an integer k
mathMin(k, a) ==
  IF isNaN(a) THEN NaN
  ELSE IF a.d = 0 THEN Num(k)
  ELSE IF a.n <= k * a.d THEN a ELSE Num(k)

\* Math.round on a non-negative number: halves round up.
mathRound(a) ==
  IF a.d = 0 THEN a ELSE Num((2 * a.n + a.d) \div (2 * a.d))

(***************************************************************************)
(* What a call does: it returns a value or it throws.                      *)
(***************************************************************************)

Return(v) == [threw |-> FALSE, value |-> v]
\* An error is its message, in pieces.
Throw(e) == [threw |-> TRUE, error |-> e]

(***************************************************************************)
(* SkillMatchingService                                                    *)
(***************************************************************************)

\* The taxonomy, in the order Object.values / Object.entries iterate it.
CategoryNames == <<"frontend", "backend", "database", "cloud", "ai_ml", "mobile">>

skillCategories ==
  [ frontend |-> <<
      <<"r","e","a","c","t">>,
      <<"v","u","e">>,
      <<"a","n","g","u","l","a","r">>,
      <<"j","a","v","a","s","c","r","i","p","t">>,
      <<"t","y","p","e","s","c","r","i","p","t">>,
      <<"h","t","m","l">>,
      <<"c","s","s">>,
      <<"s","a","s","s">>,
      <<"s","c","s","s">>,
      <<"r","e","d","u","x">>,
      <<"v","u","e","x">>,
      <<"n","e","x","t",".","j","s">>,
      <<"n","u","x","t",".","j","s">>,
      <<"s","v","e","l","t","e">>,
      <<"w","e","b","p","a","c","k">>,
      <<"v","i","t","e">>,
      <<"t","a","i","l","w","i","n","d">>
    >>
  , backend |-> <<
      <<"n","o","d","e",".","j","s">>,
      <<"e","x","p","r","e","s","s">>,
      <<"f","a","s","t","i","f","y">>,
      <<"p","y","t","h","o","n">>,
      <<"d","j","a","n","g","o">>,
      <<"f","l","a","s","k">>,
      <<"j","a","v","a">>,
      <<"s","p","r","i","n","g">>,
      <<"c","#">>,
      <<".","n","e","t">>,
      <<"p","h","p">>,
      <<"l","a","r","a","v","e","l">>,
      <<"r","u","b","y">>,
      <<"r","a","i","l","s">>,
      <<"g","o">>,
      <<"r","u","s","t">>,
      <<"k","o","t","l","i","n">>
    >>
  , database |-> <<
      <<"m","y","s","q","l">>,
      <<"p","o","s","t","g","r","e","s","q","l">>,
      <<"m","o","n","g","o","d","b">>,
      <<"r","e","d","i","s">>,
      <<"e","l","a","s","t","i","c","s","e","a","r","c","h">>,
      <<"s","q","l","i","t","e">>,
      <<"o","r","a","c","l","e">>,
      <<"s","q","l"," ","s","e","r","v","e","r">>,
      <<"c","a","s","s","a","n","d","r","a">>,
      <<"d","y","n","a","m","o","d","b">>,
      <<"f","i","r","e","b","a","s","e">>,
      <<"s","u","p","a","b","a","s","e">>
    >>
  , cloud |-> <<
      <<"a","w","s">>,
      <<"a","z","u","r","e">>,
      <<"g","c","p">>,
      <<"d","o","c","k","e","r">>,
      <<"k","u","b","e","r","n","e","t","e","s">>,
      <<"t","e","r","r","a","f","o","r","m">>,
      <<"j","e","n","k","i","n","s">>,
      <<"g","i","t","l","a","b"," ","c","i">>,
      <<"g","i","t","h","u","b"," ","a","c","t","i","o","n","s">>,
      <<"c","i","r","c","l","e","c","i">>,
      <<"h","e","r","o","k","u">>,
      <<"v","e","r","c","e","l">>,
      <<"n","e","t","l","i","f","y">>
    >>
  , ai_ml |-> <<
      <<"t","e","n","s","o","r","f","l","o","w">>,
      <<"p","y","t","o","r","c","h">>,
      <<"s","c","i","k","i","t","-","l","e","a","r","n">>,
      <<"p","a","n","d","a","s">>,
      <<"n","u","m","p","y">>,
      <<"k","e","r","a","s">>,
      <<"o","p","e","n","c","v">>,
      <<"l","a","n","g","c","h","a","i","n">>,
      <<"o","p","e","n","a","i">>,
      <<"h","u","g","g","i","n","g"," ","f","a","c","e">>,
      <<"t","r","a","n","s","f","o","r","m","e","r","s">>,
      <<"m","a","c","h","i","n","e"," ","l","e","a","r","n","i","n","g">>,
      <<"d","e","e","p"," ","l","e","a","r","n","i","n","g">>,
      <<"n","a","t","u","r","a","l"," ","l","a","n","g","u","a","g","e"," ","p","r","o","c","e","s","s","i","n","g">>,
      <<"c","o","m","p","u","t","e","r"," ","v","i","s","i","o","n">>,
      <<"d","a","t","a"," ","s","c","i","e","n","c","e">>
    >>
  , mobile |-> <<
      <<"r","e","a","c","t"," ","n","a","t","i","v","e">>,
      <<"f","l","u","t","t","e","r">>,
      <<"s","w","i","f","t">>,
      <<"k","o","t","l","i","n">>,
      <<"i","o","n","i","c">>,
      <<"x","a","m","a","r","i","n">>,
      <<"c","o","r","d","o","v","a">>
    >>
  ]

\* category.charAt(0).toUpperCase() + category.slice(1)
capitalize ==
  [frontend |-> "Frontend", backend |-> "Backend", database |-> "Database",
   cloud |-> "Cloud", ai_ml |-> "Ai_ml", mobile |-> "Mobile"]

\* The scan without the removal of duplicates.
extractSkillsFromJobDescription_withDuplicates(jobDescription) ==
  IF jobDescription.kind # "string"
  THEN Throw(<<"TypeError: jobDescription.toLowerCase is not a function">>)
  ELSE Return(flat([i \in 1..Len(CategoryNames) |->
                      SelectSeq(skillCategories[CategoryNames[i]],
                                LAMBDA skill : includes(toLowerCase(jobDescription.text),
                                                        toLowerCase(skill)))]))

\* extractSkillsFromJobDescription: the taxonomy tokens that occur in the
\* lower-cased description, category by category, each once.  The parameter is
\* declared a string; callers also hand it an array (resumeParserTest.ts,
\* the requiredSkills controller), on which jobDescription.toLowerCase is
\* undefined and the call throws a TypeError.
extractSkillsFromJobDescription(jobDescription) ==
  IF jobDescription.kind # "string"
  THEN Throw(<<"TypeError: jobDescription.toLowerCase is not a function">>)
  ELSE LET description == toLowerCase(jobDescription.text)
           foundIn(categorySkills) ==
             SelectSeq(categorySkills,
                       LAMBDA skill : includes(description, toLowerCase(skill)))
           foundSkills ==
             flat([i \in 1..Len(CategoryNames) |->
                     foundIn(skillCategories[CategoryNames[i]])])
       IN Return(uniqueInOrder(foundSkills))

\* The candidate's skills of all six categories, flattened and lower-cased.
allResumeSkillsOf(resumeSkills) ==
  LET spread == flat(<<resumeSkills.technical, resumeSkills.frameworks,
                       resumeSkills.languages, resumeSkills.tools,
                       resumeSkills.databases, resumeSkills.cloud>>)
  IN [i \in 1..Len(spread) |-> toLowerCase(spread[i])]

\* similarityMap of calculateSkillSimilarity
similarityMap ==
  <<
    [key |-> <<"j","a","v","a","s","c","r","i","p","t">>,
     alternatives |-> <<<<"j","s">>, <<"n","o","d","e",".","j","s">>, <<"t","y","p","e","s","c","r","i","p","t">>, <<"t","s">>>>],
    [key |-> <<"p","y","t","h","o","n">>,
     alternatives |-> <<<<"p","y">>, <<"d","j","a","n","g","o">>, <<"f","l","a","s","k">>>>],
    [key |-> <<"j","a","v","a">>,
     alternatives |-> <<<<"s","p","r","i","n","g">>, <<"k","o","t","l","i","n">>>>],
    [key |-> <<"r","e","a","c","t">>,
     alternatives |-> <<<<"r","e","a","c","t",".","j","s">>, <<"r","e","a","c","t","j","s">>, <<"n","e","x","t",".","j","s">>>>],
    [key |-> <<"v","u","e">>,
     alternatives |-> <<<<"v","u","e",".","j","s">>, <<"v","u","e","j","s">>, <<"n","u","x","t",".","j","s">>>>],
    [key |-> <<"a","n","g","u","l","a","r">>,
     alternatives |-> <<<<"a","n","g","u","l","a","r","j","s">>>>],
    [key |-> <<"a","w","s">>,
     alternatives |-> <<<<"a","m","a","z","o","n"," ","w","e","b"," ","s","e","r","v","i","c","e","s">>, <<"e","c","2">>, <<"s","3">>>>],
    [key |-> <<"d","o","c","k","e","r">>,
     alternatives |-> <<<<"c","o","n","t","a","i","n","e","r","s">>, <<"c","o","n","t","a","i","n","e","r","i","z","a","t","i","o","n">>>>],
    [key |-> <<"k","u","b","e","r","n","e","t","e","s">>,
     alternatives |-> <<<<"k","8","s">>, <<"o","r","c","h","e","s","t","r","a","t","i","o","n">>>>]
  >>

\* calculateSkillSimilarity with the similarity map consulted before the
\* partial match.
calculateSkillSimilarity_synonymsFirst(candidateSkill, requiredSkill) ==
  LET candidate == toLowerCase(candidateSkill)
      required == toLowerCase(requiredSkill)
  IN IF candidate = required THEN 100
     ELSE IF \E i \in 1..Len(similarityMap) :
               \/ /\ candidate = similarityMap[i].key
                  /\ arrayIncludes(similarityMap[i].alternatives, required)
               \/ /\ required = similarityMap[i].key
                  /\ arrayIncludes(similarityMap[i].alternatives, candidate)
          THEN 70
     ELSE IF includes(candidate, required) \/ includes(required, candidate) THEN 80
     ELSE 0

\* calculateSkillSimilarity
calculateSkillSimilarity(candidateSkill, requiredSkill) ==
  LET candidate == toLowerCase(candidateSkill)
      required == toLowerCase(requiredSkill)
  IN IF candidate = required THEN 100
     ELSE IF includes(candidate, required) \/ includes(required, candidate) THEN 80
     ELSE IF \E i \in 1..Len(similarityMap) :
               \/ /\ candidate = similarityMap[i].key
                  /\ arrayIncludes(similarityMap[i].alternatives, required)
               \/ /\ required = similarityMap[i].key
                  /\ arrayIncludes(similarityMap[i].alternatives, candidate)
          THEN 70
     ELSE 0

\* some element of the category's list contains skillLower
someIncludes(list, skillLower) ==
  \E i \in 1..Len(list) : includes(toLowerCase(list[i]), skillLower)

\* inferSkillLevel
inferSkillLevel(skill, resumeSkills) ==
  LET skillLower == toLowerCase(skill)
      appearances ==
        (IF someIncludes(resumeSkills.technical, skillLower) THEN 1 ELSE 0)
        + (IF someIncludes(resumeSkills.frameworks, skillLower) THEN 1 ELSE 0)
        + (IF someIncludes(resumeSkills.tools, skillLower) THEN 1 ELSE 0)
  IN IF appearances >= 2 THEN "Advanced"
     ELSE IF appearances = 1 THEN "Intermediate"
     ELSE "Beginner"

\* inferRequiredLevel
inferRequiredLevel(skill) == "Required"

\* alternativeMap of findSkillAlternatives
alternativeMap ==
  <<
    [key |-> <<"r","e","a","c","t">>,
     alternatives |-> <<<<"v","u","e">>, <<"a","n","g","u","l","a","r">>, <<"s","v","e","l","t","e">>>>],
    [key |-> <<"v","u","e">>,
     alternatives |-> <<<<"r","e","a","c","t">>, <<"a","n","g","u","l","a","r">>>>],
    [key |-> <<"a","n","g","u","l","a","r">>,
     alternatives |-> <<<<"r","e","a","c","t">>, <<"v","u","e">>>>],
    [key |-> <<"m","y","s","q","l">>,
     alternatives |-> <<<<"p","o","s","t","g","r","e","s","q","l">>, <<"m","o","n","g","o","d","b">>>>],
    [key |-> <<"p","o","s","t","g","r","e","s","q","l">>,
     alternatives |-> <<<<"m","y","s","q","l">>, <<"m","o","n","g","o","d","b">>>>],
    [key |-> <<"a","w","s">>,
     alternatives |-> <<<<"a","z","u","r","e">>, <<"g","c","p">>>>],
    [key |-> <<"a","z","u","r","e">>,
     alternatives |-> <<<<"a","w","s">>, <<"g","c","p">>>>],
    [key |-> <<"d","o","c","k","e","r">>,
     alternatives |-> <<<<"p","o","d","m","a","n">>>>],
    [key |-> <<"k","u","b","e","r","n","e","t","e","s">>,
     alternatives |-> <<<<"d","o","c","k","e","r"," ","s","w","a","r","m">>>>]
  >>

\* findSkillAlternatives
findSkillAlternatives(missingSkill, candidateSkills) ==
  LET missing == toLowerCase(missingSkill)
      present(alt) ==
        \E i \in 1..Len(candidateSkills) :
          includes(toLowerCase(candidateSkills[i]), alt)
      alternatives ==
        IF \E i \in 1..Len(alternativeMap) : alternativeMap[i].key = missing
        THEN LET e == CHOOSE i \in 1..Len(alternativeMap) :
                        alternativeMap[i].key = missing
             IN SelectSeq(alternativeMap[e].alternatives, LAMBDA alt : present(alt))
        ELSE <<>>
  IN slice0(alternatives, 3)

criticalSkills ==
  <<<<"j","a","v","a","s","c","r","i","p","t">>, <<"p","y","t","h","o","n">>, <<"j","a","v","a">>, <<"r","e","a","c","t">>, <<"n","o","d","e",".","j","s">>, <<"s","q","l">>>>

important ==
  <<<<"d","o","c","k","e","r">>, <<"a","w","s">>, <<"g","i","t">>, <<"a","p","i">>, <<"d","a","t","a","b","a","s","e">>>>

\* determineSkillImportance
determineSkillImportance(skill) ==
  LET skillLower == toLowerCase(skill)
  IN IF \E i \in 1..Len(criticalSkills) : includes(skillLower, criticalSkills[i])
     THEN "Critical"
     ELSE IF \E i \in 1..Len(important) : includes(skillLower, important[i])
     THEN "Important"
     ELSE "Nice to have"

\* Belonging to a category by containing one of its tokens only.
inCategory_containing(skill, categorySkills) ==
  \E i \in 1..Len(categorySkills) : includes(skill, categorySkills[i])

\* skill belongs to the category: it contains, or is contained in, one of the
\* category's tokens.
inCategory(skill, categorySkills) ==
  \E i \in 1..Len(categorySkills) :
    includes(skill, categorySkills[i]) \/ includes(categorySkills[i], skill)

\* getCategoryBreakdown: an entry for each category with a required skill.
getCategoryBreakdown(matchedSkills, requiredSkills) ==
  LET categoryRequired(c) ==
        SelectSeq(requiredSkills, LAMBDA skill : inCategory(skill, skillCategories[c]))
      categoryMatched(c) ==
        SelectSeq(matchedSkills, LAMBDA skill : inCategory(skill, skillCategories[c]))
      present == {CategoryNames[i] : i \in {j \in 1..Len(CategoryNames) :
                                              Len(categoryRequired(CategoryNames[j])) > 0}}
  IN [c \in present |->
        [matched |-> Len(categoryMatched(c)), total |-> Len(categoryRequired(c))]]

\* identifyStrengthAreas
identifyStrengthAreas(resumeSkills, matchedSkills) ==
  LET userSkills == resumeSkills.technical \o resumeSkills.frameworks \o resumeSkills.tools
      userSkillsInCategory(c) ==
        SelectSeq(userSkills, LAMBDA skill : inCategory(toLowerCase(skill), skillCategories[c]))
      strong == SelectSeq(CategoryNames, LAMBDA c : Len(userSkillsInCategory(c)) >= 3)
      strengths == [i \in 1..Len(strong) |-> capitalize[strong[i]]]
  IN slice0(strengths, 3)

\* The "Learn <skill>" entries identifyImprovementAreas pushes while fewer than
\* five improvements are listed.
RECURSIVE pushCritical(_, _)
pushCritical(improvements, missingSkills) ==
  IF missingSkills = <<>> THEN improvements
  ELSE LET missing == Head(missingSkills)
       IN pushCritical(
            IF missing.importance = "Critical" /\ Len(improvements) < 5
            THEN Append(improvements, [kind |-> "learn", skill |-> missing.skill])
            ELSE improvements,
            Tail(missingSkills))

\* identifyImprovementAreas
identifyImprovementAreas(missingSkills, categoryBreakdown) ==
  LET entries == SelectSeq(CategoryNames, LAMBDA c : c \in DOMAIN categoryBreakdown)
      \* matchRate < 0.5, with matchRate = matched / total and total >= 1
      weak == SelectSeq(entries, LAMBDA c :
                /\ 2 * categoryBreakdown[c].matched < categoryBreakdown[c].total
                /\ categoryBreakdown[c].total >= 2)
      categories == [i \in 1..Len(weak) |-> [kind |-> "category", name |-> capitalize[weak[i]]]]
  IN slice0(pushCritical(categories, missingSkills), 5)

\* generateRecommendations
generateRecommendations(missingSkills, strengthAreas, resumeSkills) ==
  LET criticalMissing == SelectSeq(missingSkills, LAMBDA skill : skill.importance = "Critical")
      spread == resumeSkills.technical \o resumeSkills.frameworks \o resumeSkills.tools
      allSkills == [i \in 1..Len(spread) |-> toLowerCase(spread[i])]
      has(word) == \E i \in 1..Len(allSkills) : includes(allSkills[i], word)
      recommendations ==
        (IF Len(criticalMissing) > 0
         THEN <<[kind |-> "focus", on |-> criticalMissing[1].skill]>> ELSE <<>>)
        \o (IF Len(strengthAreas) > 0
            THEN <<[kind |-> "leverage", on |-> strengthAreas[1]]>> ELSE <<>>)
        \o (IF has(<<"r","e","a","c","t">>)
            THEN <<[kind |-> "nextjs", on |-> "React"]>> ELSE <<>>)
        \o (IF has(<<"j","a","v","a","s","c","r","i","p","t">>)
            THEN <<[kind |-> "typescript", on |-> "JavaScript"]>> ELSE <<>>)
  IN slice0(recommendations, 4)

\* The technical fit as the mean similarity of the matched skills.
calculateTechnicalFit_perMatched(matchedSkills, requiredSkills) ==
  IF Len(requiredSkills) = 0 \/ Len(matchedSkills) = 0 THEN Num(100)
  ELSE mathMin(100, divide(Num(sum([i \in 1..Len(matchedSkills) |-> matchedSkills[i].match])),
                           Num(Len(matchedSkills))))

\* calculateTechnicalFit without its guard for an empty requirement list.
calculateTechnicalFit_unguarded(matchedSkills, requiredSkills) ==
  LET weightedScore == sum([i \in 1..Len(matchedSkills) |-> matchedSkills[i].match])
  IN mathMin(100, divide(Num(weightedScore), Num(Len(requiredSkills))))

\* calculateTechnicalFit
calculateTechnicalFit(matchedSkills, requiredSkills) ==
  IF Len(requiredSkills) = 0 THEN Num(100)
  ELSE LET weightedScore == sum([i \in 1..Len(matchedSkills) |-> matchedSkills[i].match])
       IN mathMin(100, divide(Num(weightedScore), Num(Len(requiredSkills))))

\* calculateExperienceFit
calculateExperienceFit(resumeSkills) ==
  LET totalSkills == Len(resumeSkills.technical \o resumeSkills.frameworks
                         \o resumeSkills.tools \o resumeSkills.databases)
  IN IF totalSkills >= 15 THEN Num(100)
     ELSE IF totalSkills >= 10 THEN Num(80)
     ELSE IF totalSkills >= 5 THEN Num(60)
     ELSE Num(IF totalSkills * 10 > 20 THEN totalSkills * 10 ELSE 20)

\* find preferring a candidate skill equal to the required one.
findMatch_best(allResumeSkills, required) ==
  IF \E i \in 1..Len(allResumeSkills) : allResumeSkills[i] = required
  THEN CHOOSE i \in 1..Len(allResumeSkills) :
         /\ allResumeSkills[i] = required
         /\ \A j \in 1..(i - 1) : allResumeSkills[j] # required
  ELSE IF \E i \in 1..Len(allResumeSkills) :
            includes(allResumeSkills[i], required) \/ includes(required, allResumeSkills[i])
  THEN CHOOSE i \in 1..Len(allResumeSkills) :
         /\ includes(allResumeSkills[i], required) \/ includes(required, allResumeSkills[i])
         /\ \A j \in 1..(i - 1) :
              ~(includes(allResumeSkills[j], required) \/ includes(required, allResumeSkills[j]))
  ELSE 0

\* allResumeSkills.find(resume => resume.includes(skill) || skill.includes(resume)):
\* the index of the first match, 0 when there is none
findMatch(allResumeSkills, required) ==
  LET matches(resume) == includes(resume, required) \/ includes(required, resume)
  IN IF \E i \in 1..Len(allResumeSkills) : matches(allResumeSkills[i])
     THEN CHOOSE i \in 1..Len(allResumeSkills) :
            /\ matches(allResumeSkills[i])
            /\ \A j \in 1..(i - 1) : ~matches(allResumeSkills[j])
     ELSE 0

\* The record pushed for a required skill, and the list it is pushed to, given
\* the index of the candidate skill found for it.  A candidate skill that is
\* the empty string is falsy, and the required skill is missing.
pushFor(required, resumeSkills, allResumeSkills, found) ==
  IF found > 0 /\ allResumeSkills[found] # <<>>
  THEN [list |-> "matched",
        entry |-> [skill |-> required,
                   required |-> TRUE,
                   candidateLevel |-> inferSkillLevel(allResumeSkills[found], resumeSkills),
                   requiredLevel |-> inferRequiredLevel(required),
                   match |-> calculateSkillSimilarity(allResumeSkills[found], required)]]
  ELSE [list |-> "missing",
        entry |-> [skill |-> required,
                   importance |-> determineSkillImportance(required),
                   alternatives |-> findSkillAlternatives(required, allResumeSkills)]]

\* One pass of the requiredSkills.forEach of calculateSkillMatch.
analyzeRequired(required, resumeSkills, allResumeSkills) ==
  pushFor(required, resumeSkills, allResumeSkills, findMatch(allResumeSkills, required))

\* matchPercentage of calculateSkillMatch, before rounding
matchPercentageOf(matchedSkills, requiredSkills) ==
  IF Len(requiredSkills) > 0
  THEN times(divide(Num(Len(matchedSkills)), Num(Len(requiredSkills))), 100)
  ELSE Num(0)

\* the entries the forEach pushed to the list
pushedTo(analysis, list) ==
  LET kept == SelectSeq(analysis, LAMBDA a : a.list = list)
  IN [i \in 1..Len(kept) |-> kept[i].entry]

\* The MatchResult calculateSkillMatch returns, of its parts.
matchResultFrom(matchedSkills, missingSkills, matchPercentage, categoryBreakdown, strengthAreas, improvementAreas, recommendations, technicalFit, experienceFit) ==
  [overallMatch |-> mathRound(matchPercentage),
   matchedSkills |-> matchedSkills,
   missingSkills |-> missingSkills,
   strengthAreas |-> strengthAreas,
   improvementAreas |-> improvementAreas,
   recommendations |-> recommendations,
   fitScore |-> [technical |-> mathRound(technicalFit),
                 experience |-> mathRound(experienceFit),
                 \* (technicalFit + experienceFit) / 2
                 overall |-> mathRound(divide(plus(technicalFit, experienceFit), Num(2)))],
   matchPercentage |-> mathRound(matchPercentage),
   categoryBreakdown |-> categoryBreakdown]

\* calculateSkillMatch once the category breakdown and the strength areas are
\* there.
matchResultWith(resumeSkills, requiredSkills, matchedSkills, missingSkills, categoryBreakdown, strengthAreas) ==
  matchResultFrom(
    matchedSkills, missingSkills,
    matchPercentageOf(matchedSkills, requiredSkills),
    categoryBreakdown,
    strengthAreas,
    identifyImprovementAreas(missingSkills, categoryBreakdown),
    generateRecommendations(missingSkills, strengthAreas, resumeSkills),
    calculateTechnicalFit(matchedSkills, requiredSkills),
    calculateExperienceFit(resumeSkills))

\* calculateSkillMatch once the matched and the missing skills are listed.
matchResultOfLists(resumeSkills, requiredSkills, matchedSkills, missingSkills) ==
  matchResultWith(
    resumeSkills, requiredSkills, matchedSkills, missingSkills,
    getCategoryBreakdown(
      [i \in 1..Len(matchedSkills) |-> toLowerCase(matchedSkills[i].skill)],
      requiredSkills),
    identifyStrengthAreas(resumeSkills, matchedSkills))

\* calculateSkillMatch after its forEach.
matchResultOfAnalysis(resumeSkills, requiredSkills, analysis) ==
  matchResultOfLists(resumeSkills, requiredSkills,
                     pushedTo(analysis, "matched"), pushedTo(analysis, "missing"))

\* The MatchResult calculateSkillMatch builds from the required skills.
matchResultOfSkills(resumeSkills, requiredSkills, allResumeSkills) ==
  matchResultOfAnalysis(
    resumeSkills, requiredSkills,
    [i \in 1..Len(requiredSkills) |->
       analyzeRequired(requiredSkills[i], resumeSkills, allResumeSkills)])

matchResultOf(resumeSkills, requiredSkills) ==
  matchResultOfSkills(resumeSkills, requiredSkills, allResumeSkillsOf(resumeSkills))

\* calculateSkillMatch
calculateSkillMatch(resumeSkills, jobDescription) ==
  LET extracted == extractSkillsFromJobDescription(jobDescription)
  IN IF extracted.threw THEN extracted
     ELSE Return(matchResultOf(resumeSkills, extracted.value))


(***************************************************************************)
(* The Groq oracle and JSON                                                *)
(***************************************************************************)

Whitespace == {" ", "\n", "\t", "\r"}

\* s from its first character on that is not white space
RECURSIVE trimStart(_)
trimStart(s) ==
  IF s # <<>> /\ Head(s) \in Whitespace THEN trimStart(Tail(s)) ELSE s

\* s up to its last character that is not white space
RECURSIVE trimEnd(_)
trimEnd(s) ==
  IF s # <<>> /\ s[Len(s)] \in Whitespace THEN trimEnd(SubSeq(s, 1, Len(s) - 1)) ELSE s

\* String.prototype.trim
trim(s) == trimEnd(trimStart(s))

startsWith(s, prefix) ==
  Len(s) >= Len(prefix) /\ SubSeq(s, 1, Len(prefix)) = prefix

endsWith(s, suffix) ==
  Len(s) >= Len(suffix) /\ SubSeq(s, Len(s) - Len(suffix) + 1, Len(s)) = suffix

\* The backquote character, which a TLA+ string cannot hold.
Backquote == "<backquote>"

Fence == <<Backquote, Backquote, Backquote>>
JsonTag == <<"j", "s", "o", "n">>

\* stripMarkdownCodeBlocks with the pattern /^```\s*\n?([\s\S]*?)\n?```$/, which
\* leaves a json tag in the group.
stripMarkdownCodeBlocks_keepingTag(response) ==
  LET trimmed == trim(response)
      match == /\ Len(trimmed) >= 2 * Len(Fence)
               /\ startsWith(trimmed, Fence)
               /\ endsWith(trimmed, Fence)
      inside == SubSeq(trimmed, Len(Fence) + 1, Len(trimmed) - Len(Fence))
  IN IF match THEN trim(inside) ELSE trimmed

\* stripMarkdownCodeBlocks: response.trim() matched against
\*   /^```(?:json)?\s*\n?([\s\S]*?)\n?```$/
\* The pattern is anchored at both ends, so it matches exactly when the trimmed
\* response starts with a fence and ends with another one that does not overlap
\* it.  After the opening fence the greedy (?:json)? takes the tag when it is
\* there and the greedy \s* the white space after it; the lazy group then runs
\* to the closing fence, less one newline before it.  The group is trimmed.
stripMarkdownCodeBlocks(response) ==
  LET trimmed == trim(response)
      match == /\ Len(trimmed) >= 2 * Len(Fence)
               /\ startsWith(trimmed, Fence)
               /\ endsWith(trimmed, Fence)
      inside == SubSeq(trimmed, Len(Fence) + 1, Len(trimmed) - Len(Fence))
      afterTag == IF startsWith(inside, JsonTag)
                  THEN SubSeq(inside, Len(JsonTag) + 1, Len(inside))
                  ELSE inside
      afterSpace == trimStart(afterTag)
      group1 == IF afterSpace # <<>> /\ afterSpace[Len(afterSpace)] = "\n"
                THEN SubSeq(afterSpace, 1, Len(afterSpace) - 1)
                ELSE afterSpace
  IN IF match THEN trim(group1) ELSE trimmed

\* What the oracle's completion holds: the call rejects (network error,
\* time-out, API error), or it resolves with choices[0]?.message?.content,
\* which may be missing or the empty string.
CompletionError == [kind |-> "error"]
CompletionNoContent == [kind |-> "content", present |-> FALSE, content |-> <<>>]
CompletionContent(text) == [kind |-> "content", present |-> TRUE, content |-> text]

\* GroqService.parseResumeContent: the content, or an error when the call
\* rejected or the content is falsy (missing or empty).
parseResumeContent(completion) ==
  IF completion.kind = "error" THEN Throw(<<"Groq request failed">>)
  ELSE IF ~completion.present \/ completion.content = <<>>
  THEN Throw(<<"No response from Groq">>)
  ELSE Return(completion.content)

(***************************************************************************)
(* JSON values.  An object keeps its properties in props; a property that  *)
(* is missing is missing from props, and nulls names the properties (by    *)
(* path) whose value is null;  Reading a property of null or undefined     *)
(* throws a TypeError.                                                     *)
(***************************************************************************)

JsonNull == [type |-> "null"]
JsonString(chars) == [type |-> "string", chars |-> chars]
JsonObject(props, nulls) == [type |-> "object", props |-> props, nulls |-> nulls]
JsonNumber(value) == [type |-> "number", value |-> value]
JsonArray(items) == [type |-> "array", items |-> items]
\* An absent property.
JsonUndefined == [type |-> "undefined"]

\* the value has the property, and it is not null
has(value, key) ==
  value.type = "object" /\ key \in DOMAIN value.props /\ <<key>> \notin value.nulls

TypeError == <<"TypeError">>
SyntaxError == <<"SyntaxError">>

\* The document parseResumeWithAI returns when the oracle or the parse fails.
EmptyResume ==
  JsonObject(
    [personalInfo |-> [name |-> <<>>, email |-> <<>>, phone |-> <<>>, location |-> <<>>],
     summary |-> <<>>,
     skills |-> [technical |-> <<>>, frameworks |-> <<>>, languages |-> <<>>,
                 tools |-> <<>>, databases |-> <<>>, cloud |-> <<>>],
     experience |-> <<>>,
     education |-> <<>>,
     projects |-> <<>>,
     certifications |-> <<>>],
    {})

\* The result extractSkillsWithAI returns when the oracle or the parse fails.
EmptySkillExtraction ==
  JsonObject(
    [skills |-> [technical |-> <<>>, frameworks |-> <<>>, languages |-> <<>>,
                 tools |-> <<>>, databases |-> <<>>, cloud |-> <<>>],
     experience |-> [totalYears |-> 0, seniority |-> "junior",
                     primaryRole |-> <<>>, industries |-> <<>>],
     confidence |-> Num(0),
     suggestions |-> <<>>],
    {})

\* A resume the oracle structured in full.
FullResumeProps ==
  [personalInfo |-> [name |-> <<"J","o","h","n"," ","D","o","e">>,
                     email |-> <<"j","o","h","n","@","d","o","e",".","i","o">>,
                     phone |-> <<"5","5","5","-","0","1","0","0">>,
                     location |-> <<"A","u","s","t","i","n">>],
   summary |-> <<"F","u","l","l","-","s","t","a","c","k"," ","e","n","g","i","n","e","e","r"," ","b","u","i","l","d","i","n","g"," ","s","c","a","l","a","b","l","e"," ","w","e","b"," ","a","p","p","l","i","c","a","t","i","o","n","s",".">>,
   skills |-> [technical |-> <<<<"R","e","a","c","t">>, <<"N","o","d","e",".","j","s">>>>,
               frameworks |-> <<<<"E","x","p","r","e","s","s",".","j","s">>>>,
               languages |-> <<<<"J","a","v","a","S","c","r","i","p","t">>>>,
               tools |-> <<>>,
               databases |-> <<>>,
               cloud |-> <<<<"A","W","S">>>>],
   experience |-> <<[company |-> <<"T","e","c","h","C","o","r","p">>,
                     position |-> <<"S","e","n","i","o","r"," ","E","n","g","i","n","e","e","r">>,
                     location |-> <<"A","u","s","t","i","n">>,
                     startDate |-> <<"2","0","2","2","-","0","1">>,
                     endDate |-> <<>>,
                     current |-> TRUE,
                     description |-> <<<<"L","e","d"," ","a"," ","t","e","a","m"," ","o","f"," ","f","i","v","e">>>>,
                     technologies |-> <<<<"R","e","a","c","t">>, <<"N","o","d","e",".","j","s">>>>]>>,
   education |-> <<[institution |-> <<"M","I","T">>,
                    degree |-> <<"B","S","c">>,
                    field |-> <<"C","S">>,
                    location |-> <<>>,
                    startDate |-> <<>>,
                    endDate |-> <<"2","0","1","9">>,
                    achievements |-> <<>>]>>,
   projects |-> <<[name |-> <<"S","h","o","p">>,
                   description |-> <<"A","n"," ","e","-","c","o","m","m","e","r","c","e"," ","p","l","a","t","f","o","r","m">>,
                   technologies |-> <<<<"E","x","p","r","e","s","s",".","j","s">>>>,
                   duration |-> <<>>,
                   highlights |-> <<>>]>>,
   certifications |-> <<[name |-> <<"A","W","S"," ","A","r","c","h","i","t","e","c","t">>,
                         issuer |-> <<"A","m","a","z","o","n">>,
                         date |-> <<"2","0","1","9">>]>>]

\* A resume of which the oracle found little: a name, a short summary, one
\* skill, an experience entry without bullets.
SparseResumeProps ==
  [personalInfo |-> [name |-> <<"J","o","h","n"," ","D","o","e">>, email |-> <<>>, phone |-> <<>>, location |-> <<>>],
   summary |-> <<"E","n","g","i","n","e","e","r",".">>,
   skills |-> [technical |-> <<>>, frameworks |-> <<>>, languages |-> <<<<"J","a","v","a","S","c","r","i","p","t">>>>,
               tools |-> <<>>, databases |-> <<>>, cloud |-> <<>>],
   experience |-> <<[company |-> <<"T","e","c","h","C","o","r","p">>,
                     position |-> <<"E","n","g","i","n","e","e","r">>,
                     location |-> <<>>,
                     startDate |-> <<>>,
                     endDate |-> <<>>,
                     current |-> FALSE,
                     description |-> <<>>,
                     technologies |-> <<>>]>>,
   education |-> <<>>,
   projects |-> <<>>,
   certifications |-> <<>>]

\* The properties of r other than key.
without(r, key) == [k \in DOMAIN r \ {key} |-> r[k]]

\* A skill analysis as the oracle is asked for it by extractSkillsWithAI.
SkillAnalysisProps ==
  [skills |-> [technical |-> <<<<"R","e","a","c","t">>, <<"N","o","d","e",".","j","s">>>>,
               frameworks |-> <<<<"E","x","p","r","e","s","s",".","j","s">>>>,
               languages |-> <<<<"J","a","v","a","S","c","r","i","p","t">>, <<"T","y","p","e","S","c","r","i","p","t">>>>,
               tools |-> <<<<"G","i","t">>>>,
               databases |-> <<>>,
               cloud |-> <<<<"A","W","S">>>>],
   experience |-> [totalYears |-> 5, seniority |-> "senior",
                   primaryRole |-> <<"S","e","n","i","o","r"," ","E","n","g","i","n","e","e","r">>, industries |-> <<>>],
   confidence |-> Rat(9, 10),
   suggestions |-> <<>>]

\* Query understandings as the oracle is asked for them by parseTalentQuery.
\* derivedFilters holds only the filters the oracle names; a filter it leaves
\* out is undefined.
QueryFilters(experience, location, aiExperience, employmentType, availability) ==
  [type |-> "object", experience |-> experience, location |-> location,
   aiExperience |-> aiExperience, employmentType |-> employmentType,
   availability |-> availability]

NoFilters ==
  QueryFilters(JsonUndefined, JsonUndefined, JsonUndefined, JsonUndefined, JsonUndefined)

QueryProps(extractedSkills, extractedRequirements, confidence, derivedFilters) ==
  [extractedSkills |-> JsonArray(extractedSkills),
   extractedRequirements |-> JsonArray(extractedRequirements),
   confidence |-> confidence, derivedFilters |-> derivedFilters]

PythonInBengaluruProps ==
  QueryProps(<<<<"p","y","t","h","o","n">>>>, <<<<"k","u","b","e","r","n","e","t","e","s">>>>, Rat(9, 10),
    QueryFilters(JsonNumber(5), JsonString(<<"b","e","n","g","a","l","u","r","u">>), JsonUndefined,
                 JsonString(<<"f","u","l","l","-","t","i","m","e">>), JsonString(<<"o","p","e","n">>)))

VisionEngineerProps ==
  QueryProps(<<<<"p","y","t","h","o","n">>, <<"r","u","s","t">>, <<"T","O","R","C","H">>>>, <<<<"k","u","b","e","r","n","e","t","e","s">>>>, Rat(8, 10),
    QueryFilters(JsonUndefined, JsonUndefined,
                 [type |-> "object", domains |-> <<<<"C","o","m","p","u","t","e","r"," ","V","i","s","i","o","n">>>>,
                  frameworks |-> <<<<"P","y","T","o","r","c","h">>>>],
                 JsonUndefined, JsonUndefined))

ImmediateContractorProps ==
  QueryProps(<<<<"R","u","s","t">>>>, <<<<"E","n","g","i","n","e","e","r">>, <<"v","i","s","i","o","n">>>>, Rat(7, 10),
    QueryFilters(JsonNumber(30), JsonString(<<"b","o","m","b","a","y">>),
                 [type |-> "object", domains |-> <<>>, frameworks |-> <<>>],
                 JsonString(<<"c","o","n","t","r","a","c","t">>), JsonUndefined))

ImmediatelyAvailableProps ==
  QueryProps(<<<<"p","y","t","h","o","n">>>>, <<>>, Rat(6, 10),
    QueryFilters(JsonUndefined, JsonUndefined, JsonUndefined, JsonUndefined,
                 JsonString(<<"i","m","m","e","d","i","a","t","e">>)))

AnyoneProps == QueryProps(<<>>, <<>>, Rat(1, 10), NoFilters)

\* The JSON texts of the model.  A text is one character of a response: it
\* stands for a block of JSON that holds no backquote and no white space at
\* its ends.  Some conform to the schema the prompt asks for, some do not.
JsonTexts ==
  "{resume}" :> JsonObject(FullResumeProps, {}) @@
  "{sparse resume}" :> JsonObject(SparseResumeProps, {}) @@
  "{resume without personalInfo}" :> JsonObject(without(FullResumeProps, "personalInfo"), {}) @@
  "{resume without skills}" :> JsonObject(without(FullResumeProps, "skills"), {}) @@
  "{resume with skills.technical: null}" :> JsonObject(FullResumeProps, {<<"skills", "technical">>}) @@
  "{resume with experience[0].position: null}" :>
      JsonObject(FullResumeProps, {<<"experience", "position">>}) @@
  "{skill analysis}" :> JsonObject(SkillAnalysisProps, {}) @@
  "{technical: null}" :> JsonObject([technical |-> <<>>], {<<"technical">>}) @@
  "{python in bengaluru}" :> JsonObject(PythonInBengaluruProps, {}) @@
  "{vision engineer}" :> JsonObject(VisionEngineerProps, {}) @@
  "{immediate contractor}" :> JsonObject(ImmediateContractorProps, {}) @@
  "{immediately available}" :> JsonObject(ImmediatelyAvailableProps, {}) @@
  "{anyone}" :> JsonObject(AnyoneProps, {}) @@
  "{python in bengaluru without derivedFilters}" :>
      JsonObject(without(PythonInBengaluruProps, "derivedFilters"), {}) @@
  "{python in bengaluru without extractedSkills}" :>
      JsonObject(without(PythonInBengaluruProps, "extractedSkills"), {}) @@
  "null" :> JsonNull

Quote == "\""

\* JSON.parse: white space around the value is skipped; a JSON text of the
\* model parses to its value, a double-quoted run of characters without a
\* quote or a control character to a string, anything else is a SyntaxError.
jsonParse(text) ==
  LET t == trim(text)
  IN IF Len(t) = 1 /\ t[1] \in DOMAIN JsonTexts THEN Return(JsonTexts[t[1]])
     ELSE IF /\ Len(t) >= 2
             /\ t[1] = Quote
             /\ t[Len(t)] = Quote
             /\ \A i \in 2..(Len(t) - 1) : t[i] \notin ({Quote} \cup (Whitespace \ {" "}))
          THEN Return(JsonString(SubSeq(t, 2, Len(t) - 1)))
     ELSE Throw(SyntaxError)

(***************************************************************************)
(* ResumeParserService                                                     *)
(***************************************************************************)

\* parseResumeWithAI without its catch: the failure reaches the caller.
parseResumeWithAI_rethrowing(text, completion) ==
  LET response == parseResumeContent(completion)
  IN IF response.threw THEN response
     ELSE jsonParse(stripMarkdownCodeBlocks(response.value))

\* parseResumeWithAI: one oracle request with the prompt holding the text;
\* the response is stripped of its fence and parsed; any failure is caught and
\* gives the empty document.
parseResumeWithAI(text, completion) ==
  LET response == parseResumeContent(completion)
      parsed == jsonParse(stripMarkdownCodeBlocks(response.value))
  IN IF response.threw \/ parsed.threw THEN Return(EmptyResume) ELSE parsed

\* extractSkillsWithAI without its catch: the failure reaches the caller.
extractSkillsWithAI_rethrowing(text, completion) ==
  LET response == parseResumeContent(completion)
  IN IF response.threw THEN response
     ELSE jsonParse(stripMarkdownCodeBlocks(response.value))

\* extractSkillsWithAI: the same for the skill analysis.
extractSkillsWithAI(text, completion) ==
  LET response == parseResumeContent(completion)
      parsed == jsonParse(stripMarkdownCodeBlocks(response.value))
  IN IF response.threw \/ parsed.threw THEN Return(EmptySkillExtraction) ELSE parsed

\* extractSkills
extractSkills(resumeText, completion) ==
  LET skillsData == extractSkillsWithAI(resumeText, completion)
  IN IF skillsData.threw
     THEN Throw(<<"Failed to extract skills: ">> \o skillsData.error)
     ELSE skillsData

SkillKeys == {"technical", "frameworks", "languages", "tools", "databases", "cloud"}

\* Object.values(parsedData.skills).flat().length: a null category is one
\* element of the flattened array.
totalSkillsOf(parsedData) ==
  LET skills == parsedData.props.skills
      count(k) == IF <<"skills", k>> \in parsedData.nulls THEN 1 ELSE Len(skills[k])
  IN count("technical") + count("frameworks") + count("languages")
     + count("tools") + count("databases") + count("cloud")

\* the points of the skills without their cap
skillPoints_uncapped(totalSkills) == totalSkills * 2

\* Math.min(25, totalSkills * 2)
skillPoints(totalSkills) == IF totalSkills * 2 < 25 THEN totalSkills * 2 ELSE 25

\* the points of the experience section with every in the place of some
experiencePoints_everyEntry(experience) ==
  IF Len(experience) > 0
  THEN 15 + (IF \A i \in 1..Len(experience) : Len(experience[i].description) > 0
             THEN 10 ELSE 0)
  ELSE 0

\* the points of the experience section
experiencePoints(experience) ==
  IF Len(experience) > 0
  THEN 15 + (IF \E i \in 1..Len(experience) : Len(experience[i].description) > 0
             THEN 10 ELSE 0)
  ELSE 0

\* if (parsedData.summary && parsedData.summary.length > 50) score += 5
summaryPoints(parsedData) ==
  IF has(parsedData, "summary") /\ Len(parsedData.props.summary) > 50 THEN 5 ELSE 0

\* calculateConfidence: the share of the 100 points the document earns.
calculateConfidence(parsedData, text) ==
  IF \/ ~has(parsedData, "personalInfo")
     \/ ~has(parsedData, "skills")
     \/ ~has(parsedData, "experience")
     \/ (Len(parsedData.props.experience) > 0
           /\ <<"experience", "description">> \in parsedData.nulls)
     \/ ~has(parsedData, "education")
     \/ ~has(parsedData, "projects")
  THEN Throw(TypeError)
  ELSE
    LET d == parsedData.props
        personal == (IF d.personalInfo.name # <<>> THEN 5 ELSE 0)
                  + (IF d.personalInfo.email # <<>> THEN 5 ELSE 0)
                  + (IF d.personalInfo.phone # <<>> THEN 5 ELSE 0)
                  + (IF d.personalInfo.location # <<>> THEN 5 ELSE 0)
        totalSkills == totalSkillsOf(parsedData)
        skills == skillPoints(totalSkills)
        experience == experiencePoints(d.experience)
        education ==
          IF Len(d.education) > 0
          THEN 10 + (IF \E i \in 1..Len(d.education) :
                          d.education[i].degree # <<>> /\ d.education[i].institution # <<>>
                     THEN 5 ELSE 0)
          ELSE 0
        projects == IF Len(d.projects) > 0 THEN 10 ELSE 0
        summary == summaryPoints(parsedData)
        score == personal + skills + experience + education + projects + summary
    IN Return(mathMin(1, divide(Num(score), Num(100))))

PdfType == "application/pdf"
DocxType == "application/vnd.openxmlformats-officedocument.wordprocessingml.document"
DocType == "application/msword"
TextType == "text/plain"

\* The text of the file: extractTextFromPDF and extractTextFromWord throw on
\* a buffer their library cannot read (file.readable), a plain text is its
\* buffer, any other type is refused.
extractText(file) ==
  IF file.mimetype = PdfType
  THEN IF file.readable THEN Return(file.buffer)
       ELSE Throw(<<"Failed to extract text from PDF">>)
  ELSE IF file.mimetype \in {DocxType, DocType}
  THEN IF file.readable THEN Return(file.buffer)
       ELSE Throw(<<"Failed to extract text from Word document">>)
  ELSE IF file.mimetype = TextType THEN Return(file.buffer)
  ELSE Throw(<<"Unsupported file type: ", file.mimetype>>)

\* The part of parseResume that follows the extraction of the text: the
\* oracle's completion is structured, the confidence is computed, and any
\* error is thrown again as "Failed to parse resume: ...".
parseExtractedText(extractedText, completion) ==
  LET parsedData == parseResumeWithAI(extractedText, completion)
      confidence == calculateConfidence(parsedData.value, extractedText)
  IN IF parsedData.threw THEN Throw(<<"Failed to parse resume: ">> \o parsedData.error)
     ELSE IF confidence.threw THEN Throw(<<"Failed to parse resume: ">> \o confidence.error)
     ELSE Return(JsonObject(
            [extractedText |-> extractedText, confidence |-> confidence.value]
              @@ parsedData.value.props,
            parsedData.value.nulls \ {<<"extractedText">>, <<"confidence">>}))

\* parseResume
parseResume(file, completion) ==
  LET extractedText == extractText(file)
  IN IF extractedText.threw
     THEN Throw(<<"Failed to parse resume: ">> \o extractedText.error)
     ELSE parseExtractedText(extractedText.value, completion)

(***************************************************************************)
(* SkillMatchingService, on the documents of the resume extractor          *)
(***************************************************************************)

\* the six categories of a skills object, spread into one array
spreadSkills(skills) ==
  skills.technical \o skills.frameworks \o skills.languages
    \o skills.tools \o skills.databases \o skills.cloud

\* a category of the resume's skills is null or missing: spreading it throws
categoryNotIterable(resume) ==
  \E k \in SkillKeys :
    k \notin DOMAIN resume.props.skills \/ <<"skills", k>> \in resume.nulls

\* hasSkillsInCategory
hasSkillsInCategory(userSkills, categorySkills) ==
  \E c \in 1..Len(categorySkills) : \E u \in 1..Len(userSkills) :
    includes(userSkills[u], categorySkills[c]) \/ includes(categorySkills[c], userSkills[u])

\* generateSkillSuggestions
generateSkillSuggestions(skills) ==
  LET spread == spreadSkills(skills)
      allSkills == [i \in 1..Len(spread) |-> toLowerCase(spread[i])]
      recommended ==
        (IF hasSkillsInCategory(allSkills, skillCategories.frontend)
         THEN <<"Node.js", "Express", "MongoDB", "REST APIs">> ELSE <<>>)
        \o (IF hasSkillsInCategory(allSkills, skillCategories.backend)
            THEN <<"Docker", "AWS", "Kubernetes", "CI/CD">> ELSE <<>>)
      trending == <<"AI/ML", "Kubernetes", "GraphQL", "TypeScript", "Next.js", "Rust", "Go">>
      complementary ==
        IF ~hasSkillsInCategory(allSkills, skillCategories.ai_ml)
        THEN <<"Machine Learning", "TensorFlow", "Python Data Science">> ELSE <<>>
  IN [recommended |-> slice0(recommended, 5),
      trending |-> slice0(trending, 5),
      complementary |-> slice0(complementary, 5)]

\* convertToTalentProfile.  The profile is kept without its id and without the
\* years of experience and the seniority, which are computed from the clock;
\* determineSeniority reads position.toLowerCase() and description.some of
\* every experience entry, which throws on an entry that lacks them.
convertToTalentProfile(resume) ==
  IF categoryNotIterable(resume) THEN Throw(TypeError)
  ELSE IF /\ Len(resume.props.experience) > 0
          /\ \/ <<"experience", "position">> \in resume.nulls
             \/ <<"experience", "description">> \in resume.nulls
  THEN Throw(TypeError)
  ELSE
    LET d == resume.props
        fromExperience ==
          [i \in 1..Len(slice0(d.experience, 2)) |->
             [position |-> d.experience[i].position,
              company |-> d.experience[i].company,
              first |-> IF Len(d.experience[i].description) > 0
                        THEN d.experience[i].description[1] ELSE <<>>]]
        fromProjects ==
          [i \in 1..Len(slice0(d.projects, 2)) |->
             [name |-> d.projects[i].name, description |-> d.projects[i].description]]
        highlights == fromExperience \o fromProjects
    IN Return(
         [name |-> d.personalInfo.name,
          title |-> IF Len(d.experience) > 0 /\ d.experience[1].position # <<>>
                    THEN d.experience[1].position
                    ELSE <<"P","r","o","f","e","s","s","i","o","n","a","l">>,
          skills |-> spreadSkills(d.skills),
          location |-> d.personalInfo.location,
          availability |-> "open",
          source |-> "resume",
          matchScore |-> 0,
          highlights |-> slice0(highlights, 3),
          summary |-> d.summary,
          screeningStatus |->
            [automated |-> TRUE,
             score |-> times(d.confidence, 100),
             \* confidence > 0.7
             recommended |-> 10 * d.confidence.n > 7 * d.confidence.d]])

(***************************************************************************)
(* Experience and seniority.  A Date is Invalid Date, or a time of which   *)
(* the year, the month and the day are kept, as UTC reads them.            *)
(***************************************************************************)

Digits == <<"0", "1", "2", "3", "4", "5", "6", "7", "8", "9">>

isDigits(s) == \A i \in 1..Len(s) : \E k \in 1..Len(Digits) : Digits[k] = s[i]

\* the number a run of digits writes
RECURSIVE numberOf(_)
numberOf(s) ==
  IF s = <<>> THEN 0
  ELSE numberOf(SubSeq(s, 1, Len(s) - 1)) * 10
       + (CHOOSE k \in 0..9 : Digits[k + 1] = s[Len(s)])

InvalidDate == [valid |-> FALSE]
DateUTC(year, month, day) == [valid |-> TRUE, year |-> year, month |-> month, day |-> day]

\* Date.parse on a string.  The date-only forms YYYY, YYYY-MM and YYYY-MM-DD
\* are midnight UTC of the day, the first of the month or of the year when the
\* string leaves it out.  The other strings of the model hold no number and
\* name no month, and no format accepts them.
parseDate(s) ==
  LET n == Len(s)
      shaped == /\ n \in {4, 7, 10}
                /\ isDigits(SubSeq(s, 1, 4))
                /\ n >= 7 => (s[5] = "-" /\ isDigits(SubSeq(s, 6, 7)))
                /\ n = 10 => (s[8] = "-" /\ isDigits(SubSeq(s, 9, 10)))
      year == numberOf(SubSeq(s, 1, 4))
      month == IF n >= 7 THEN numberOf(SubSeq(s, 6, 7)) ELSE 1
      day == IF n = 10 THEN numberOf(SubSeq(s, 9, 10)) ELSE 1
  IN IF shaped /\ month \in 1..12 /\ day \in 1..31
     THEN DateUTC(year, month, day)
     ELSE InvalidDate

\* new Date(value): a string is parsed, null is converted to the number 0, the
\* first of January 1970 UTC, and undefined to NaN, an Invalid Date.
newDate(value) ==
  IF value.type = "string" THEN parseDate(value.chars)
  ELSE IF value.type = "null" THEN DateUTC(1970, 1, 1)
  ELSE InvalidDate

\* getFullYear and getMonth read the date in the time zone of the process.
\* Behind UTC, midnight UTC of a day is the evening of the day before, and
\* that of the first of a month lies in the month before.
localMonth(date, behindUTC) ==
  IF behindUTC /\ date.day = 1
  THEN IF date.month = 1 THEN [year |-> date.year - 1, month |-> 12]
       ELSE [year |-> date.year, month |-> date.month - 1]
  ELSE [year |-> date.year, month |-> date.month]

\* the months of an entry with Math.abs in the place of Math.max(0, .)
clampMonths_abs(months) == IF months < 0 THEN 0 - months ELSE months

\* Math.max(0, months)
clampMonths(months) == IF months < 0 THEN 0 ELSE months

\* The months one entry adds to totalMonths.  clock: the local year and month
\* new Date() gives, and whether the time zone of the process is behind UTC.
monthsOfEntry(exp, clock) ==
  LET startDate == newDate(exp.startDate)
      endDate == newDate(exp.endDate)
      from == localMonth(startDate, clock.behindUTC)
      to == IF exp.current THEN clock.now ELSE localMonth(endDate, clock.behindUTC)
  IN IF startDate.valid /\ (exp.current \/ endDate.valid)
     THEN clampMonths((to.year - from.year) * 12 + (to.month - from.month))
     ELSE 0

\* calculateExperienceYears
calculateExperienceYears(experiences, clock) ==
  IF Len(experiences) = 0 THEN Num(0)
  ELSE LET totalMonths ==
             sum([i \in 1..Len(experiences) |-> monthsOfEntry(experiences[i], clock)])
       IN divide(mathRound(times(divide(Num(totalMonths), Num(12)), 10)), Num(10))

LeadershipTitles ==
  <<<<"l","e","a","d">>, <<"m","a","n","a","g","e","r">>, <<"p","r","i","n","c","i","p","a","l">>>>

LeadershipDeeds ==
  <<<<"t","e","a","m">>, <<"m","e","n","t","o","r">>>>

\* hasLeadership of determineSeniority
hasLeadership(experiences) ==
  \E i \in 1..Len(experiences) :
    \/ \E t \in 1..Len(LeadershipTitles) :
         includes(toLowerCase(experiences[i].position), LeadershipTitles[t])
    \/ \E j \in 1..Len(experiences[i].description) :
         \E t \in 1..Len(LeadershipDeeds) :
           includes(toLowerCase(experiences[i].description[j]), LeadershipDeeds[t])

\* years >= k
atLeast(years, k) == years.n >= k * years.d

\* determineSeniority with the years looked at before the leadership
determineSeniority_yearsFirst(years, experiences) ==
  IF atLeast(years, 4) THEN "senior"
  ELSE IF atLeast(years, 8) /\ hasLeadership(experiences) THEN "principal"
  ELSE IF atLeast(years, 6) /\ hasLeadership(experiences) THEN "lead"
  ELSE IF atLeast(years, 2) THEN "mid"
  ELSE "junior"

\* determineSeniority
determineSeniority(years, experiences) ==
  IF atLeast(years, 8) /\ hasLeadership(experiences) THEN "principal"
  ELSE IF atLeast(years, 6) /\ hasLeadership(experiences) THEN "lead"
  ELSE IF atLeast(years, 4) THEN "senior"
  ELSE IF atLeast(years, 2) THEN "mid"
  ELSE "junior"

(***************************************************************************)
(* ResumeController.batchAnalyzeResumes                                    *)
(***************************************************************************)

Undefined == [kind |-> "undefined"]

\* { ...parsedResume.skills, ...enhancedSkills }: the categories of the resume
\* and the properties of the skill analysis, which win where both have one.
\* Spreading null adds nothing, and spreading a string adds index keys only.
combineSkills(parsedResume, enhancedSkills) ==
  LET own == parsedResume.props.skills
      added == IF enhancedSkills.type = "object" THEN enhancedSkills.props ELSE [x \in {} |-> x]
      addedNulls == IF enhancedSkills.type = "object" THEN enhancedSkills.nulls ELSE {}
      ownNulls == {<<k>> : k \in {c \in DOMAIN own \ DOMAIN added :
                                    <<"skills", c>> \in parsedResume.nulls}}
  IN JsonObject(added @@ own, addedNulls \cup ownNulls)

\* { ...parsedResume, skills: combinedSkills }
withSkills(parsedResume, combinedSkills) ==
  JsonObject(
    [parsedResume.props EXCEPT !.skills = combinedSkills.props],
    {path \in parsedResume.nulls : path[1] # "skills"}
      \cup {<<"skills">> \o path : path \in combinedSkills.nulls})

\* calculateSkillMatch on the combined skills: after the required skills are
\* extracted the six categories are spread, which throws on a null one.
calculateSkillMatchOf(combinedSkills, requirement) ==
  LET extracted == extractSkillsFromJobDescription(requirement)
  IN IF extracted.threw THEN extracted
     ELSE IF \E k \in SkillKeys : k \notin DOMAIN combinedSkills.props \/ <<k>> \in combinedSkills.nulls
     THEN Throw(TypeError)
     ELSE calculateSkillMatch(combinedSkills.props, requirement)

\* requiredSkills && Array.isArray(requiredSkills) && requiredSkills.length > 0
shouldAnalyzeSkillMatch(requiredSkills) ==
  requiredSkills.kind = "array" /\ Len(requiredSkills.items) > 0

\* The result of the catch clause of the callback of files.map.
failedResult(file, error) ==
  [fileName |-> file.originalname, fileSize |-> file.size, fileType |-> file.mimetype,
   success |-> FALSE, error |-> error]

\* The successful result of the callback of files.map.
analyzedResult(file, data) ==
  [fileName |-> file.originalname, fileSize |-> file.size,
   fileType |-> file.mimetype, success |-> TRUE, data |-> data]

\* The callback of files.map, its return after step 5.
afterSkillMatch(file, data, combinedSkills, skillMatchAnalysis) ==
  IF skillMatchAnalysis.threw
  THEN failedResult(file, skillMatchAnalysis.error)
  ELSE analyzedResult(file,
         [skillMatch |->
            [analysis |-> skillMatchAnalysis.value,
             suggestions |-> generateSkillSuggestions(combinedSkills.props)]]
         @@ data)

\* Step 5: the skill match, when asked for, is computed and added to the data.
afterTalentProfile(file, data, combinedSkills, requiredSkills) ==
  IF ~shouldAnalyzeSkillMatch(requiredSkills) THEN analyzedResult(file, data)
  ELSE afterSkillMatch(file, data, combinedSkills,
                       calculateSkillMatchOf(combinedSkills, requiredSkills))

\* The callback of files.map once the talent profile is there.
profiled(file, resume, enhancedSkills, combinedSkills, requiredSkills, talentProfile) ==
  IF talentProfile.threw THEN failedResult(file, talentProfile.error)
  ELSE afterTalentProfile(
         file,
         [parsedResume |-> resume,
          skillsAnalysis |-> enhancedSkills,
          talentProfile |-> talentProfile.value],
         combinedSkills, requiredSkills)

\* Step 4: the talent profile of the resume with the combined skills.
afterCombinedSkills(file, resume, enhancedSkills, combinedSkills, requiredSkills) ==
  profiled(file, resume, enhancedSkills, combinedSkills, requiredSkills,
           convertToTalentProfile(resume))

\* Step 3: the skills of the resume and of the analysis are combined.
afterExtractSkills(file, parsedResume, enhancedSkills, combinedSkills, requiredSkills) ==
  afterCombinedSkills(file, withSkills(parsedResume, combinedSkills),
                      enhancedSkills, combinedSkills, requiredSkills)

\* The callback of files.map once extractSkills has settled.
analyzeWithSkills(file, parsedResume, enhancedSkills, requiredSkills) ==
  IF enhancedSkills.threw THEN failedResult(file, enhancedSkills.error)
  ELSE afterExtractSkills(file, parsedResume, enhancedSkills.value,
                          combineSkills(parsedResume, enhancedSkills.value),
                          requiredSkills)

\* The callback of files.map from its second await on (step 2): the skill
\* analysis, then the combined skills, the talent profile and the skill match.
analyzeParsedResume(file, parsedResume, skillsCompletion, requiredSkills) ==
  analyzeWithSkills(file, parsedResume,
                    extractSkills(parsedResume.props.extractedText, skillsCompletion),
                    requiredSkills)

\* The callback of files.map, for a file and the completions of its two
\* oracle requests.
analyzeFile(file, parseCompletion, skillsCompletion, requiredSkills) ==
  LET parsedResume == parseResume(file, parseCompletion)
  IN IF parsedResume.threw THEN failedResult(file, parsedResume.error)
     ELSE analyzeParsedResume(file, parsedResume.value, skillsCompletion, requiredSkills)

\* The summary with failed counting the rejected promises only.
batchSummary_countingRejected(files, processedResults, requiredSkills) ==
  LET successCount == Len(SelectSeq(processedResults, LAMBDA r : r.success))
      rejected == Len(SelectSeq(processedResults,
                                LAMBDA r : ~r.success /\ r.error = <<"Unknown error">>))
  IN [total |-> Len(files), successful |-> successCount, failed |-> rejected]

\* The summary of the response.
batchSummary(files, processedResults, requiredSkills) ==
  LET successCount == Len(SelectSeq(processedResults, LAMBDA r : r.success))
      counts == [total |-> Len(files),
                 successful |-> successCount,
                 failed |-> Len(files) - successCount]
  IN IF shouldAnalyzeSkillMatch(requiredSkills)
     THEN [requiredSkills |-> requiredSkills.items] @@ counts
     ELSE counts

\* results.map of the response: the value of a fulfilled promise, a failed
\* result for a rejected one.
processedResultsOf(files, results) ==
  [i \in 1..Len(results) |->
     IF results[i].status = "fulfilled" THEN results[i].value
     ELSE [fileName |-> files[i].originalname, fileSize |-> files[i].size,
           fileType |-> files[i].mimetype, success |-> FALSE,
           error |-> <<"Unknown error">>]]

\* How many files a batch may hold.
MaxFilesPerBatch == 10

(***************************************************************************)
(* batchAnalyzeResumes in its revision that takes a jobDescription: every  *)
(* file is matched against the description, and the response holds the     *)
(* results alone.                                                          *)
(***************************************************************************)

failedMatch(file, error) ==
  [fileName |-> file.originalname, fileType |-> file.mimetype,
   success |-> FALSE, error |-> error]

\* The result of the callback of req.files.map.
matchedResult(file, resumeSkills, matchAnalysis) ==
  IF matchAnalysis.threw THEN failedMatch(file, matchAnalysis.error)
  ELSE [fileName |-> file.originalname, fileType |-> file.mimetype,
        success |-> TRUE,
        data |-> [matchAnalysis |-> matchAnalysis.value, resumeSkills |-> resumeSkills]]

\* The callback of req.files.map, from the match of the combined skills on.
afterResumeSkills(file, resumeSkills, jobDescription) ==
  matchedResult(file, resumeSkills, calculateSkillMatchOf(resumeSkills, jobDescription))

\* The callback of req.files.map once extractSkills has settled.
matchWithSkills(file, parsedResume, skillsData, jobDescription) ==
  IF skillsData.threw THEN failedMatch(file, skillsData.error)
  ELSE afterResumeSkills(file, combineSkills(parsedResume, skillsData.value),
                         jobDescription)

\* The callback of req.files.map from its second await on.
matchParsedResume(file, parsedResume, skillsCompletion, jobDescription) ==
  matchWithSkills(file, parsedResume,
                  extractSkills(parsedResume.props.extractedText, skillsCompletion),
                  jobDescription)

\* The callback of req.files.map.
matchFile(file, parseCompletion, skillsCompletion, jobDescription) ==
  LET parsedResume == parseResume(file, parseCompletion)
  IN IF parsedResume.threw THEN failedMatch(file, parsedResume.error)
     ELSE matchParsedResume(file, parsedResume.value, skillsCompletion, jobDescription)

(***************************************************************************)
(* Inputs of the skill-matching check                                      *)
(***************************************************************************)

SkillCategoryKeys == <<"technical", "frameworks", "languages", "tools", "databases", "cloud">>

EmptySkills ==
  [technical |-> <<>>, frameworks |-> <<>>, languages |-> <<>>,
   tools |-> <<>>, databases |-> <<>>, cloud |-> <<>>]

\* The candidate of the skill-match scenario.
ScenarioSkills ==
  [technical |-> <<<<"R","e","a","c","t">>, <<"N","o","d","e",".","j","s">>>>,
   frameworks |-> <<<<"E","x","p","r","e","s","s",".","j","s">>>>,
   languages |-> <<<<"J","a","v","a","S","c","r","i","p","t">>>>,
   tools |-> <<>>,
   databases |-> <<>>,
   cloud |-> <<<<"A","W","S">>>>]

\* The candidate of the documented analyze-skill-match request.
DocumentedSkills ==
  [technical |-> <<<<"R","e","a","c","t">>, <<"N","o","d","e",".","j","s">>, <<"J","a","v","a","S","c","r","i","p","t">>>>,
   frameworks |-> <<<<"E","x","p","r","e","s","s",".","j","s">>>>,
   languages |-> <<<<"J","a","v","a","S","c","r","i","p","t">>, <<"T","y","p","e","S","c","r","i","p","t">>>>,
   tools |-> <<<<"G","i","t">>>>,
   databases |-> <<<<"M","o","n","g","o","D","B">>>>,
   cloud |-> <<<<"A","W","S">>>>]

\* A candidate who lists a skill twice, and a skill that contains another
\* before that other.
ShadowedSkills ==
  [technical |-> <<<<"R","e","a","c","t","J","S">>, <<"R","e","a","c","t">>>>,
   frameworks |-> <<<<"R","e","a","c","t">>, <<"V","u","e",".","j","s">>>>,
   languages |-> <<>>,
   tools |-> <<>>,
   databases |-> <<>>,
   cloud |-> <<>>]

BaseSkillSets == {EmptySkills, ScenarioSkills, DocumentedSkills, ShadowedSkills}

\* Skills added to a base skill set: one that contains a token, one contained
\* in a token, the empty string, and an alternative of a token.
SkillPool == <<<<"R","e","a","c","t","J","S">>, <<"J","S">>, <<>>, <<"V","u","e">>>>

\* How many skills are added to a base skill set.
MaxAddedSkills == 1

\* S and every skill set of S with one more skill in one category.
OneMoreSkill(S) ==
  S \cup {[r EXCEPT ![SkillCategoryKeys[c]] = Append(@, SkillPool[s])] :
            r \in S, c \in 1..Len(SkillCategoryKeys), s \in 1..Len(SkillPool)}

RECURSIVE SkillSetsWith(_, _)
SkillSetsWith(S, n) == IF n = 0 THEN S ELSE SkillSetsWith(OneMoreSkill(S), n - 1)

SkillSets == SkillSetsWith(BaseSkillSets, MaxAddedSkills)

\* A requirement handed to calculateSkillMatch: a free-text job description,
\* or an array of requirement strings.
Text(chars) == [kind |-> "string", text |-> chars]
Array(items) == [kind |-> "array", items |-> items]

ScenarioRequired == <<<<"R","e","a","c","t">>, <<"N","o","d","e",".","j","s">>, <<"T","y","p","e","S","c","r","i","p","t">>, <<"D","o","c","k","e","r">>, <<"K","u","b","e","r","n","e","t","e","s">>>>
ScenarioText == <<"R","e","a","c","t",","," ","N","o","d","e",".","j","s",","," ","T","y","p","e","S","c","r","i","p","t",","," ","D","o","c","k","e","r",","," ","K","u","b","e","r","n","e","t","e","s">>

Requirements ==
  { Text(<<>>),
    Text(<<"W","e"," ","n","e","e","d"," ","a"," ","c","o","o","k">>),
    Text(ScenarioText),
    Text(<<"M","o","n","g","o","D","B"," ","a","n","d"," ","R","e","a","c","t"," ","N","a","t","i","v","e">>),
    Text(<<"r","e","a","c","t"," ","v","u","e"," ","j","a","v","a"," ","a","w","s"," ","g","c","p"," ","c","s","s"," ","p","h","p"," ","g","i","t"," ","s","q","l">>),
    Array(<<>>),
    Array(ScenarioRequired) }

(***************************************************************************)
(* Inputs of the resume extraction: uploaded files and oracle answers      *)
(***************************************************************************)

ResumeText == <<"John Doe, Senior Engineer at TechCorp ...">>

File(name, mimetype, readable) ==
  [originalname |-> name, mimetype |-> mimetype, buffer |-> ResumeText,
   size |-> 2048, readable |-> readable]

Files ==
  { File("cv.pdf", PdfType, TRUE),
    File("scan.pdf", PdfType, FALSE),
    File("cv.docx", DocxType, TRUE),
    File("old.doc", DocType, FALSE),
    File("cv.txt", TextType, TRUE),
    File("photo.png", "image/png", TRUE) }

\* What the oracle may put in a response.  json: the text is JSON;
\* conforming: it is JSON of the schema the prompt asks for.
Payload(text, json, conforming) ==
  [text |-> text, json |-> json, conforming |-> conforming]

Payloads ==
  { Payload(<<"{resume}">>, TRUE, TRUE),
    Payload(<<"{sparse resume}">>, TRUE, TRUE),
    Payload(<<"{resume without personalInfo}">>, TRUE, FALSE),
    Payload(<<"{resume without skills}">>, TRUE, FALSE),
    Payload(<<"{resume with skills.technical: null}">>, TRUE, FALSE),
    Payload(<<"{resume with experience[0].position: null}">>, TRUE, FALSE),
    Payload(<<"{skill analysis}">>, TRUE, FALSE),
    Payload(<<"null">>, TRUE, FALSE),
    Payload(<<Quote, Backquote, Backquote, Backquote, " ", "j", "s", "o", "n", Quote>>,
            TRUE, FALSE),
    Payload(<<"I could not read this resume.">>, FALSE, FALSE),
    Payload(<<"{resume}", "\n", "{resume}">>, FALSE, FALSE),
    Payload(<<"{resume}", Backquote>>, FALSE, FALSE) }

\* How much white space the oracle puts around a payload or a fence.
MaxPad == 1

PadChars == {" ", "\n"}

RECURSIVE Pads(_)
Pads(n) ==
  IF n = 0 THEN {<<>>}
  ELSE Pads(n - 1) \cup {Append(pad, c) : pad \in Pads(n - 1), c \in PadChars}

\* A response holding the payload bare, or inside a fence with or without the
\* json tag, with white space around the fence and around the payload.
Bare(payload, pre, post) ==
  [completion |-> CompletionContent(pre \o payload.text \o post),
   payload |-> payload, fence |-> "none"]

Fenced(payload, tag, pre, in, out, post) ==
  [completion |-> CompletionContent(
       pre \o Fence \o tag \o in \o payload.text \o out \o Fence \o post),
   payload |-> payload,
   fence |-> IF tag = <<>> THEN "plain" ELSE "json"]

Failed(completion) ==
  [completion |-> completion, payload |-> Payload(<<>>, FALSE, FALSE), fence |-> "none"]

OracleAnswers ==
  {Failed(CompletionError), Failed(CompletionNoContent), Failed(CompletionContent(<<>>))}
  \cup {Bare(p, pre, post) : p \in Payloads, pre \in Pads(MaxPad), post \in Pads(MaxPad)}
  \cup {Fenced(p, tag, pre, in, out, post) :
          p \in Payloads, tag \in {<<>>, JsonTag},
          pre \in Pads(MaxPad), in \in Pads(MaxPad),
          out \in Pads(MaxPad), post \in Pads(MaxPad)}

(***************************************************************************)
(* Inputs of the batch analysis                                            *)
(***************************************************************************)

\* How many files a request holds when its files are drawn from BatchFiles;
\* other requests hold the three files of ScenarioFiles, and one more file
\* than MaxFilesPerBatch.
MaxBatch == 2

BatchFiles == {File("cv.txt", TextType, TRUE), File("scan.pdf", PdfType, FALSE)}

RECURSIVE FileLists(_)
FileLists(n) ==
  IF n = 0 THEN {<<>>}
  ELSE FileLists(n - 1)
         \cup {Append(list, f) : list \in {l \in FileLists(n - 1) : Len(l) = n - 1},
                                 f \in BatchFiles}

\* Three files that can be read.
ScenarioFiles ==
  <<File("first.txt", TextType, TRUE),
    File("second.pdf", PdfType, TRUE),
    File("third.docx", DocxType, TRUE)>>

UploadedLists == FileLists(MaxBatch) \cup {ScenarioFiles}

TooManyFiles == [i \in 1..(MaxFilesPerBatch + 1) |-> File("cv.txt", TextType, TRUE)]

\* req.files and the field of req.body the handler reads: requiredSkills, or
\* jobDescription in the revision that takes one.
Request(revision, files, requirement) ==
  [revision |-> revision, files |-> files, requirement |-> requirement]

Uploaded(list) == [present |-> TRUE, list |-> list]
NoUpload == [present |-> FALSE, list |-> <<>>]

BatchRequests ==
  {Request("requiredSkills", Uploaded(list), requirement) :
     list \in UploadedLists,
     requirement \in {Undefined, Array(<<>>), Array(ScenarioRequired)}}
  \cup {Request("requiredSkills", NoUpload, Undefined),
        Request("requiredSkills", Uploaded(TooManyFiles), Undefined)}
  \cup {Request("jobDescription", Uploaded(list), Text(ScenarioText)) :
          list \in UploadedLists}
  \cup {Request("jobDescription", NoUpload, Text(ScenarioText)),
        Request("jobDescription", Uploaded(<<File("cv.txt", TextType, TRUE)>>), Undefined),
        Request("jobDescription", Uploaded(<<File("cv.txt", TextType, TRUE)>>), Text(<<>>)),
        Request("jobDescription", Uploaded(<<File("cv.txt", TextType, TRUE)>>),
                Array(ScenarioRequired))}

\* What the oracle answers to the request of parseResume and to the request
\* of extractSkills.
ParseCompletions ==
  {CompletionError,
   CompletionContent(<<"{resume}">>),
   CompletionContent(<<"{resume without skills}">>)}

SkillsCompletions ==
  {CompletionError,
   CompletionContent(<<"{skill analysis}">>),
   CompletionContent(<<"{technical: null}">>)}

(***************************************************************************)
(* State                                                                   *)
(***************************************************************************)

VARIABLES
  matchPc,        \* "off", "ready" (inputs drawn) or "done" (the call ended)
  resumeSkills,   \* calculateSkillMatch's first argument
  jobDescription, \* calculateSkillMatch's second argument
  matchResult,    \* what the call did: Return(MatchResult) or Throw(error)
  parsePc,        \* "off", "start", "awaitOracle" or "done"
  file,           \* parseResume's argument
  oracleRequests, \* how many completions parseResume has asked of the oracle
  oracleAnswer,   \* what the oracle answered, and what it made the answer of
  parseResult,    \* what parseResume did: Return(ParsedResume) or Throw(error)
  batchPc,        \* "off", "received", "running" or "responded"
  request,        \* the request batchAnalyzeResumes handles
  docs,           \* for every file: where its callback is, the completions it
                  \* got, its parsed resume, and its promise once settled
  response,       \* the response sent: its status and its body
  callPc,         \* a call of one pure function: "off", "ready" or "done"
  callArgs,       \* the function called and its arguments
  callResult,     \* what the call did: Return(value) or Throw(error)
  searchPc,       \* "off", "received", "awaiting", or "done"
  searchQuery,    \* searchTalent's argument
  queryCompletion, \* what the oracle did with the query-understanding request
  nlpResult,      \* what processNaturalLanguageQuery resolved to
  githubRequest,  \* the arguments of GitHubService.searchUsers
  githubResponse, \* what GitHubService.searchUsers did
  searchResult    \* what searchTalent did: Return(response) or Throw(error)

matchVars == <<matchPc, resumeSkills, jobDescription, matchResult>>
parseVars == <<parsePc, file, oracleRequests, oracleAnswer, parseResult>>
batchVars == <<batchPc, request, docs, response>>
callVars == <<callPc, callArgs, callResult>>
searchVars == <<searchPc, searchQuery, queryCompletion, nlpResult, githubRequest, githubResponse, searchResult>>

vars == <<matchVars, parseVars, batchVars, callVars, searchVars>>

Pending == [pending |-> TRUE]

MatchOff ==
  /\ matchPc = "off"
  /\ resumeSkills = EmptySkills
  /\ jobDescription = Text(<<>>)
  /\ matchResult = Pending

ParseOff ==
  /\ parsePc = "off"
  /\ file = File("cv.txt", TextType, TRUE)
  /\ oracleRequests = 0
  /\ oracleAnswer = Pending
  /\ parseResult = Pending

BatchOff ==
  /\ batchPc = "off"
  /\ request = Request("requiredSkills", NoUpload, Undefined)
  /\ docs = <<>>
  /\ response = Pending

CallOff ==
  /\ callPc = "off"
  /\ callArgs = [callee |-> "none"]
  /\ callResult = Pending

SearchOff ==
  /\ searchPc = "off"
  /\ searchQuery = [query |-> <<>>, limit |-> JsonUndefined, offset |-> JsonUndefined]
  /\ queryCompletion = Pending
  /\ nlpResult = Pending
  /\ githubRequest = Pending
  /\ githubResponse = Pending
  /\ searchResult = Pending

MatchInit ==
  /\ matchPc = "ready"
  /\ resumeSkills \in SkillSets
  /\ jobDescription \in Requirements
  /\ matchResult = Pending
  /\ ParseOff
  /\ BatchOff
  /\ CallOff
  /\ SearchOff

\* A call of SkillMatchingService.calculateSkillMatch.
CallCalculateSkillMatch ==
  /\ matchPc = "ready"
  /\ matchResult' = calculateSkillMatch(resumeSkills, jobDescription)
  /\ matchPc' = "done"
  /\ UNCHANGED <<resumeSkills, jobDescription, parseVars, batchVars, callVars, searchVars>>

MatchNext == CallCalculateSkillMatch

SpecMatch == MatchInit /\ [][MatchNext]_vars

ParseInit ==
  /\ parsePc = "start"
  /\ file \in Files
  /\ oracleRequests = 0
  /\ oracleAnswer = Pending
  /\ parseResult = Pending
  /\ MatchOff
  /\ BatchOff
  /\ CallOff
  /\ SearchOff

\* parseResume up to its first await of the oracle: the text is extracted; a
\* failure ends the call, otherwise one completion is requested.
ParseResumeStart ==
  /\ parsePc = "start"
  /\ LET extractedText == extractText(file)
     IN IF extractedText.threw
        THEN /\ parseResult' = Throw(<<"Failed to parse resume: ">> \o extractedText.error)
             /\ parsePc' = "done"
             /\ UNCHANGED oracleRequests
        ELSE /\ parsePc' = "awaitOracle"
             /\ oracleRequests' = oracleRequests + 1
             /\ UNCHANGED parseResult
  /\ UNCHANGED <<file, oracleAnswer, matchVars, batchVars, callVars, searchVars>>

\* The oracle's completion settles and parseResume runs to its end.
OracleResponds ==
  /\ parsePc = "awaitOracle"
  /\ \E answer \in OracleAnswers :
       /\ oracleAnswer' = answer
       /\ parseResult' = parseExtractedText(extractText(file).value, answer.completion)
  /\ parsePc' = "done"
  /\ UNCHANGED <<file, oracleRequests, matchVars, batchVars, callVars, searchVars>>

ParseNext == ParseResumeStart \/ OracleResponds

SpecParse == ParseInit /\ [][ParseNext]_vars

BatchInit ==
  /\ batchPc = "received"
  /\ request \in BatchRequests
  /\ docs = <<>>
  /\ response = Pending
  /\ MatchOff
  /\ ParseOff
  /\ CallOff
  /\ SearchOff

BadRequest(error) == [status |-> 400, body |-> [success |-> FALSE, error |-> error]]

\* batchAnalyzeResumes up to its await: the request is checked, and the
\* callback of every file runs up to its await of parseResume.
BatchAnalyzeStart ==
  /\ batchPc = "received"
  /\ LET refusal ==
           IF ~request.files.present
           THEN <<"No files uploaded. Please upload resume files.">>
           ELSE IF request.revision = "requiredSkills"
           THEN IF Len(request.files.list) > MaxFilesPerBatch
                THEN <<"Maximum 10 files allowed per batch">>
                ELSE <<>>
           ELSE IF request.requirement.kind = "undefined"
                   \/ (request.requirement.kind = "string" /\ request.requirement.text = <<>>)
           THEN <<"jobDescription is required">>
           ELSE IF request.requirement.kind # "string"
           THEN <<"jobDescription must be a string">>
           ELSE <<>>
     IN IF refusal # <<>>
        THEN /\ response' = BadRequest(refusal)
             /\ batchPc' = "responded"
             /\ UNCHANGED docs
        ELSE /\ docs' = [i \in 1..Len(request.files.list) |->
                           [pc |-> "awaitParse", completions |-> <<>>,
                            parsedResume |-> Pending, promise |-> Pending]]
             /\ batchPc' = "running"
             /\ UNCHANGED response
  /\ UNCHANGED <<request, matchVars, parseVars, callVars, searchVars>>

\* the promise of a callback that returned result
Fulfilled(result) == [status |-> "fulfilled", value |-> result]

\* The parseResume of file i settles, and the callback runs on to its await
\* of extractSkills, or to its end when parseResume threw.
ParseSettles(i) ==
  /\ batchPc = "running"
  /\ i \in 1..Len(docs)
  /\ docs[i].pc = "awaitParse"
  /\ LET f == request.files.list[i]
         failed(error) == IF request.revision = "requiredSkills"
                          THEN failedResult(f, error) ELSE failedMatch(f, error)
         extractedText == extractText(f)
     IN IF extractedText.threw
        THEN docs' = [docs EXCEPT ![i] =
               [@ EXCEPT !.pc = "settled",
                         !.promise = Fulfilled(failed(<<"Failed to parse resume: ">>
                                                        \o extractedText.error))]]
        ELSE \E completion \in ParseCompletions :
               LET parsedResume == parseExtractedText(extractedText.value, completion)
               IN docs' = [docs EXCEPT ![i] =
                    IF parsedResume.threw
                    THEN [@ EXCEPT !.pc = "settled",
                                   !.completions = <<completion>>,
                                   !.promise = Fulfilled(failed(parsedResume.error))]
                    ELSE [@ EXCEPT !.pc = "awaitSkills",
                                   !.completions = <<completion>>,
                                   !.parsedResume = parsedResume.value]]
  /\ UNCHANGED <<batchPc, request, response, matchVars, parseVars, callVars, searchVars>>

\* The extractSkills of file i settles, and the callback runs to its end.
SkillsSettles(i) ==
  /\ batchPc = "running"
  /\ i \in 1..Len(docs)
  /\ docs[i].pc = "awaitSkills"
  /\ \E completion \in SkillsCompletions :
       LET f == request.files.list[i]
           result == IF request.revision = "requiredSkills"
                     THEN analyzeParsedResume(f, docs[i].parsedResume, completion,
                                              request.requirement)
                     ELSE matchParsedResume(f, docs[i].parsedResume, completion,
                                            request.requirement)
       IN docs' = [docs EXCEPT ![i] =
            [@ EXCEPT !.pc = "settled",
                      !.completions = Append(@, completion),
                      !.promise = Fulfilled(result)]]
  /\ UNCHANGED <<batchPc, request, response, matchVars, parseVars, callVars, searchVars>>

\* Every promise has settled: the response is sent.
BatchRespond ==
  /\ batchPc = "running"
  /\ \A i \in 1..Len(docs) : docs[i].pc = "settled"
  /\ LET files == request.files.list
         results == [i \in 1..Len(docs) |-> docs[i].promise]
         processedResults == processedResultsOf(files, results)
     IN response' =
          [status |-> 200,
           body |-> [success |-> TRUE,
                     data |-> IF request.revision = "requiredSkills"
                              THEN [results |-> processedResults,
                                    summary |-> batchSummary(files, processedResults,
                                                             request.requirement)]
                              ELSE [i \in 1..Len(results) |-> results[i].value]]]
  /\ batchPc' = "responded"
  /\ UNCHANGED <<request, docs, matchVars, parseVars, callVars, searchVars>>

BatchNext ==
  \/ BatchAnalyzeStart
  \/ \E i \in 1..Len(docs) : ParseSettles(i)
  \/ \E i \in 1..Len(docs) : SkillsSettles(i)
  \/ BatchRespond

SpecBatch == BatchInit /\ [][BatchNext]_vars


(***************************************************************************)
(* Calls of calculateSkillSimilarity, and the round trip of a taxonomy     *)
(* token through calculateSkillMatch                                       *)
(***************************************************************************)

\* Skill strings: tokens in several letter cases, strings that contain one
\* another, keys of the similarity map with their alternatives, alternatives
\* of one key, unrelated strings and the empty string.
SkillStrings ==
  { <<>>,
    <<"R","e","a","c","t">>,
    <<"r","e","a","c","t">>,
    <<"R","E","A","C","T">>,
    <<"r","e","a","c","t",".","j","s">>,
    <<"R","e","a","c","t","J","S">>,
    <<"N","e","x","t",".","j","s">>,
    <<"j","s">>,
    <<"T","S">>,
    <<"J","a","v","a","S","c","r","i","p","t">>,
    <<"j","a","v","a","s","c","r","i","p","t">>,
    <<"T","y","p","e","S","c","r","i","p","t">>,
    <<"N","o","d","e",".","j","s">>,
    <<"P","y","t","h","o","n">>,
    <<"d","j","a","n","g","o">>,
    <<"F","l","a","s","k">>,
    <<"j","a","v","a">>,
    <<"K","o","t","l","i","n">>,
    <<"A","W","S">>,
    <<"s","3">>,
    <<"E","C","2">>,
    <<"d","o","c","k","e","r">>,
    <<"K","8","s">>,
    <<"K","u","b","e","r","n","e","t","e","s">>,
    <<"G","o">>,
    <<"m","o","n","g","o">> }

SimilarityInit ==
  /\ callPc = "ready"
  /\ callArgs \in {[callee |-> "calculateSkillSimilarity",
                    candidateSkill |-> c, requiredSkill |-> r] :
                     c \in SkillStrings, r \in SkillStrings}
  /\ callResult = Pending
  /\ MatchOff
  /\ ParseOff
  /\ BatchOff
  /\ SearchOff

\* A call of SkillMatchingService.calculateSkillSimilarity.
CallCalculateSkillSimilarity ==
  /\ callPc = "ready"
  /\ callArgs.callee = "calculateSkillSimilarity"
  /\ callResult' = Return(calculateSkillSimilarity(callArgs.candidateSkill,
                                                    callArgs.requiredSkill))
  /\ callPc' = "done"
  /\ UNCHANGED <<callArgs, matchVars, parseVars, batchVars, searchVars>>

SimilarityNext == CallCalculateSkillSimilarity

SpecSimilarity == SimilarityInit /\ [][SimilarityNext]_vars

\* Every token of the taxonomy.
TaxonomyTokens ==
  UNION {{skillCategories[CategoryNames[c]][i] :
            i \in 1..Len(skillCategories[CategoryNames[c]])} :
           c \in 1..Len(CategoryNames)}

\* A candidate whose skills consist of the one skill x, filed under a category.
OnlySkill(x, category) == [EmptySkills EXCEPT ![category] = <<x>>]

\* The round trip: the candidate's skills consist of a taxonomy token, and the
\* requirement names that token, as an array of one requirement string or as
\* the text of a job description.
RoundTripInit ==
  /\ matchPc = "ready"
  /\ \E x \in TaxonomyTokens, c \in 1..Len(SkillCategoryKeys) :
       /\ resumeSkills = OnlySkill(x, SkillCategoryKeys[c])
       /\ jobDescription \in {Text(x), Array(<<x>>)}
  /\ matchResult = Pending
  /\ ParseOff
  /\ BatchOff
  /\ CallOff
  /\ SearchOff

SpecCanonical ==
  (SimilarityInit \/ RoundTripInit) /\ [][SimilarityNext \/ MatchNext]_vars


(***************************************************************************)
(* Calls of calculateConfidence                                            *)
(***************************************************************************)

PersonalInfoFields == {"name", "email", "phone", "location"}

\* How many skills a document of the check holds at the start.
MaxSkillCount == 13

\* How many skills a document holds: none, one, one per category, and as many
\* as earn the 25 points of the cap or one skill less.
SkillCounts == {0, 1, 6, MaxSkillCount - 1, MaxSkillCount}

\* How many characters a summary holds: none, 50, 51.
SummaryLengths == {0, 50, 51}

Filled == <<"x">>

\* n skills, dealt to the six categories in turn
SkillsDealt(n) ==
  [k \in SkillKeys |->
     LET c == CHOOSE i \in 1..Len(SkillCategoryKeys) : SkillCategoryKeys[i] = k
     IN [j \in 1..((n + 6 - c) \div 6) |-> Filled]]

BareExperience ==
  [company |-> <<>>, position |-> <<>>, location |-> <<>>, startDate |-> <<>>,
   endDate |-> <<>>, current |-> FALSE, description |-> <<>>, technologies |-> <<>>]

BareEducation ==
  [institution |-> <<>>, degree |-> <<>>, field |-> <<>>, location |-> <<>>,
   startDate |-> <<>>, endDate |-> <<>>, achievements |-> <<>>]

BareProject ==
  [name |-> <<>>, description |-> <<>>, technologies |-> <<>>, duration |-> <<>>,
   highlights |-> <<>>]

ExperienceLists ==
  { <<>>,
    <<BareExperience>>,
    <<[BareExperience EXCEPT !.description = <<Filled>>]>>,
    <<BareExperience, [BareExperience EXCEPT !.description = <<Filled>>]>> }

EducationLists ==
  { <<>>,
    <<BareEducation>>,
    <<[BareEducation EXCEPT !.degree = Filled]>>,
    <<[BareEducation EXCEPT !.degree = Filled, !.institution = Filled]>>,
    <<[BareEducation EXCEPT !.degree = Filled],
      [BareEducation EXCEPT !.institution = Filled]>> }

ProjectLists == {<<>>, <<BareProject>>}

\* The structured resumes of the check: every choice of populated personal
\* fields, of a number of skills, of the lists and of a summary length.
StructuredResumes ==
  {JsonObject(
     [personalInfo |-> [f \in PersonalInfoFields |-> IF f \in info THEN Filled ELSE <<>>],
      summary |-> [i \in 1..len |-> "x"],
      skills |-> SkillsDealt(n),
      experience |-> experience,
      education |-> education,
      projects |-> projects,
      certifications |-> <<>>],
     {}) :
     info \in SUBSET PersonalInfoFields, len \in SummaryLengths, n \in SkillCounts,
     experience \in ExperienceLists, education \in EducationLists,
     projects \in ProjectLists}

ConfidenceInit ==
  /\ callPc = "ready"
  /\ callArgs \in {[callee |-> "calculateConfidence", parsedData |-> d, text |-> ResumeText] :
                     d \in StructuredResumes}
  /\ callResult = Pending
  /\ MatchOff
  /\ ParseOff
  /\ BatchOff
  /\ SearchOff

\* A call of ResumeParserService.calculateConfidence.
CallCalculateConfidence ==
  /\ callPc = "ready"
  /\ callArgs.callee = "calculateConfidence"
  /\ callResult' = calculateConfidence(callArgs.parsedData, callArgs.text)
  /\ callPc' = "done"
  /\ UNCHANGED <<callArgs, matchVars, parseVars, batchVars, searchVars>>

\* The documents that have one more optional field populated than the
\* document of properties d, everything else unchanged.
OneMorePopulated(d) ==
  {[d EXCEPT !.personalInfo[f] = Filled] :
     f \in {g \in PersonalInfoFields : d.personalInfo[g] = <<>>}}
  \cup {[d EXCEPT !.skills[k] = Append(@, Filled)] : k \in SkillKeys}
  \cup {[d EXCEPT !.experience = Append(@, BareExperience)]}
  \cup {[d EXCEPT !.experience[i].description = Append(@, Filled)] :
          i \in 1..Len(d.experience)}
  \cup {[d EXCEPT !.education = Append(@, BareEducation)]}
  \cup {[d EXCEPT !.education[i].degree = Filled] :
          i \in {j \in 1..Len(d.education) : d.education[j].degree = <<>>}}
  \cup {[d EXCEPT !.education[i].institution = Filled] :
          i \in {j \in 1..Len(d.education) : d.education[j].institution = <<>>}}
  \cup {[d EXCEPT !.projects = Append(@, BareProject)]}
  \cup {[d EXCEPT !.summary = [i \in 1..len |-> "x"]] :
          len \in {l \in SummaryLengths \cup {Len(d.summary) + 1} : l > Len(d.summary)}}

\* The same document with one more field populated is scored.
CallCalculateConfidencePopulated ==
  /\ callPc = "done"
  /\ callArgs.callee = "calculateConfidence"
  /\ \E d \in OneMorePopulated(callArgs.parsedData.props) :
       /\ callArgs' = [callArgs EXCEPT !.parsedData = JsonObject(d, {})]
       /\ callResult' = calculateConfidence(JsonObject(d, {}), callArgs.text)
  /\ callPc' = "populated"
  /\ UNCHANGED <<matchVars, parseVars, batchVars, searchVars>>

ConfidenceNext == CallCalculateConfidence \/ CallCalculateConfidencePopulated

SpecConfidence == ConfidenceInit /\ [][ConfidenceNext]_vars


(***************************************************************************)
(* Calls of calculateExperienceYears and of determineSeniority             *)
(***************************************************************************)

\* What an entry may hold as a date: a date-only string with or without its
\* day, a string that is no date, the empty string, null, or nothing.
NoDates ==
  {JsonNull, JsonUndefined, JsonString(<<>>), JsonString(<<"P","r","e","s","e","n","t">>), JsonString(<<"2","0","2","3","-","1","3">>)}

StartDates == NoDates \cup {JsonString(<<"2","0","2","0","-","0","6">>), JsonString(<<"2","0","2","2","-","0","1">>), JsonString(<<"2","0","2","2","-","0","1","-","1","5">>)}

EndDates == NoDates \cup {JsonString(<<"2","0","2","0","-","0","1">>), JsonString(<<"2","0","2","1","-","1","2">>), JsonString(<<"2","0","2","1","-","1","2","-","3","1">>), JsonString(<<"2","0","2","3","-","0","3","-","0","1">>)}

Experience(startDate, endDate, current) ==
  [BareExperience EXCEPT !.startDate = startDate, !.endDate = endDate, !.current = current]

Experiences ==
  {Experience(s, e, c) : s \in StartDates, e \in EndDates, c \in BOOLEAN}

\* The work history of the experience scenario.
ScenarioHistory ==
  <<Experience(JsonString(<<"2","0","2","2","-","0","1">>), JsonNull, TRUE), Experience(JsonString(<<"2","0","2","0","-","0","6">>), JsonString(<<"2","0","2","1","-","1","2">>), FALSE)>>

\* No entry, one entry, and two entries of which the first is one of two.
Histories ==
  {<<>>}
  \cup {<<e>> : e \in Experiences}
  \cup {<<first, e>> :
          first \in {ScenarioHistory[1], Experience(JsonString(<<"2","0","2","2","-","0","1","-","1","5">>), JsonString(<<"2","0","2","3","-","0","3","-","0","1">>), FALSE)},
          e \in Experiences}

\* The clock of the scenario, June 2024, in a time zone behind UTC or not.
Clocks == {[now |-> [year |-> 2024, month |-> 6], behindUTC |-> b] : b \in BOOLEAN}

ExperienceInit ==
  /\ callPc = "ready"
  /\ callArgs \in {[callee |-> "calculateExperienceYears", experiences |-> h, clock |-> c] :
                     h \in Histories, c \in Clocks}
  /\ callResult = Pending
  /\ MatchOff
  /\ ParseOff
  /\ BatchOff
  /\ SearchOff

\* A call of SkillMatchingService.calculateExperienceYears.
CallCalculateExperienceYears ==
  /\ callPc = "ready"
  /\ callArgs.callee = "calculateExperienceYears"
  /\ callResult' = Return(calculateExperienceYears(callArgs.experiences, callArgs.clock))
  /\ callPc' = "done"
  /\ UNCHANGED <<callArgs, matchVars, parseVars, batchVars, searchVars>>

\* date a lies before date b
earlier(a, b) ==
  \/ a.year < b.year
  \/ a.year = b.year /\ a.month < b.month
  \/ a.year = b.year /\ a.month = b.month /\ a.day < b.day

\* The same history with the end date of one entry moved later is measured.
CallCalculateExperienceYearsLater ==
  /\ callPc = "done"
  /\ callArgs.callee = "calculateExperienceYears"
  /\ \E i \in 1..Len(callArgs.experiences), later \in EndDates :
       /\ newDate(callArgs.experiences[i].endDate).valid
       /\ callArgs.experiences[i].endDate.type = "string"
       /\ later.type = "string"
       /\ newDate(later).valid
       /\ earlier(newDate(callArgs.experiences[i].endDate), newDate(later))
       /\ callArgs' = [callArgs EXCEPT !.experiences[i].endDate = later]
       /\ callResult' =
            Return(calculateExperienceYears(
                     [callArgs.experiences EXCEPT ![i].endDate = later], callArgs.clock))
  /\ callPc' = "moved"
  /\ UNCHANGED <<matchVars, parseVars, batchVars, searchVars>>

ExperienceNext == CallCalculateExperienceYears \/ CallCalculateExperienceYearsLater

SpecExperience == ExperienceInit /\ [][ExperienceNext]_vars

\* Years of experience, in tenths: around every threshold of the rules.
YearsOfExperience ==
  {Rat(t, 10) : t \in {0, 19, 20, 39, 40, 59, 60, 79, 80, 90, 519}}

Positions ==
  { <<"S","o","f","t","w","a","r","e"," ","E","n","g","i","n","e","e","r">>, <<"T","e","c","h"," ","L","e","a","d">>, <<"E","n","g","i","n","e","e","r","i","n","g"," ","M","a","n","a","g","e","r">>, <<"P","R","I","N","C","I","P","A","L"," ","E","n","g","i","n","e","e","r">>, <<>> }

Descriptions ==
  { <<>>, <<<<"B","u","i","l","t"," ","R","E","S","T"," ","A","P","I","s">>>>, <<<<"B","u","i","l","t"," ","R","E","S","T"," ","A","P","I","s">>, <<"M","e","n","t","o","r","e","d"," ","t","w","o"," ","i","n","t","e","r","n","s">>>>, <<<<"W","o","r","k","e","d"," ","i","n"," ","a"," ","T","E","A","M"," ","o","f"," ","f","i","v","e">>>> }

Role(position, description) ==
  [BareExperience EXCEPT !.position = position, !.description = description]

Roles == {Role(p, d) : p \in Positions, d \in Descriptions}

Careers ==
  {<<>>} \cup {<<r>> : r \in Roles}
  \cup {<<Role(<<"S","o","f","t","w","a","r","e"," ","E","n","g","i","n","e","e","r">>, <<<<"B","u","i","l","t"," ","R","E","S","T"," ","A","P","I","s">>>>), r>> : r \in Roles}

SeniorityInit ==
  /\ callPc = "ready"
  /\ callArgs \in {[callee |-> "determineSeniority", years |-> y, experiences |-> c] :
                     y \in YearsOfExperience, c \in Careers}
  /\ callResult = Pending
  /\ MatchOff
  /\ ParseOff
  /\ BatchOff
  /\ SearchOff

\* A call of SkillMatchingService.determineSeniority.
CallDetermineSeniority ==
  /\ callPc = "ready"
  /\ callArgs.callee = "determineSeniority"
  /\ callResult' = Return(determineSeniority(callArgs.years, callArgs.experiences))
  /\ callPc' = "done"
  /\ UNCHANGED <<callArgs, matchVars, parseVars, batchVars, searchVars>>

SeniorityNext == CallDetermineSeniority

SpecSeniority == SeniorityInit /\ [][SeniorityNext]_vars

(***************************************************************************)
(* TalentSearchService: the ranking score of a profile                     *)
(***************************************************************************)

\* What `if (value)` takes for true: a number other than 0, a string other
\* than the empty one, an object.
truthy(value) ==
  \/ value.type = "number" /\ value.value # 0
  \/ value.type = "string" /\ value.chars # <<>>
  \/ value.type = "object"

\* derivedFilters?.experience, derivedFilters?.location
optionalField(object, field) ==
  IF object.type = "object" THEN object[field] ELSE JsonUndefined

\* list.map((s) => s.toLowerCase())
mapToLowerCase(list) == [i \in 1..Len(list) |-> toLowerCase(list[i])]

\* list.some((s) => s.includes(sub))
someHas(list, sub) == \E i \in 1..Len(list) : includes(list[i], sub)

\* profile.aiExperience?.domains.map(...) || [], and the same of frameworks
aiTagsLower(profile, field) ==
  IF profile.aiExperience.type = "object"
  THEN mapToLowerCase(profile.aiExperience[field])
  ELSE <<>>

\* (profile.aiExperience?.frameworks.length ?? 0), and the same of domains
aiTagsLength(profile, field) ==
  IF profile.aiExperience.type = "object" THEN Len(profile.aiExperience[field]) ELSE 0

\* Math.max(k, a) for an integer k
mathMax(k, a) ==
  IF isNaN(a) THEN NaN
  ELSE IF a.d = 0 THEN a
  ELSE IF a.n >= k * a.d THEN a ELSE Num(k)

locationMap ==
  [ bangalore |-> <<<<"b","a","n","g","a","l","o","r","e">>, <<"b","e","n","g","a","l","u","r","u">>, <<"b","a","n","g","a","l","u","r","u">>>>
  , mumbai |-> <<<<"m","u","m","b","a","i">>, <<"b","o","m","b","a","y">>>>
  , delhi |-> <<<<"d","e","l","h","i">>, <<"n","e","w"," ","d","e","l","h","i">>, <<"n","c","r">>>>
  , hyderabad |-> <<<<"h","y","d","e","r","a","b","a","d">>, <<"s","e","c","u","n","d","e","r","a","b","a","d">>>>
  , chennai |-> <<<<"c","h","e","n","n","a","i">>, <<"m","a","d","r","a","s">>>>
  , pune |-> <<<<"p","u","n","e">>, <<"p","u","n","a">>>>
  ]

calculateLocationScore_exactOnly(profileLocation, searchLocation) ==
  IF toLowerCase(profileLocation) = toLowerCase(searchLocation) THEN 10 ELSE 0

calculateLocationScore(profileLocation, searchLocation) ==
  IF toLowerCase(profileLocation) = toLowerCase(searchLocation) THEN 10
  ELSE IF \E standard \in DOMAIN locationMap :
            /\ arrayIncludes(locationMap[standard], toLowerCase(searchLocation))
            /\ arrayIncludes(locationMap[standard], toLowerCase(profileLocation))
       THEN 10
       ELSE 0

calculateBaseQualityScore(profile) ==
    (IF Len(profile.skills) > 0 THEN 20 ELSE 0)
  + (IF Len(profile.highlights) > 0 THEN 20 ELSE 0)
  + (IF aiTagsLength(profile, "frameworks") > 0 THEN 20 ELSE 0)
  + (IF aiTagsLength(profile, "domains") > 0 THEN 20 ELSE 0)
  + (IF profile.experience > 0 THEN 20 ELSE 0)

\* The extracted skills that some skill of the profile contains.
skillMatches(profile, extractedSkills) ==
  {i \in 1..Len(extractedSkills) :
     someHas(mapToLowerCase(profile.skills), toLowerCase(extractedSkills[i]))}

\* The extracted requirements that the title, a highlight or an AI domain or
\* framework of the profile contains.
requirementMatches(profile, extractedRequirements) ==
  {i \in 1..Len(extractedRequirements) :
     \/ includes(toLowerCase(profile.title), toLowerCase(extractedRequirements[i]))
     \/ someHas(mapToLowerCase(profile.highlights), toLowerCase(extractedRequirements[i]))
     \/ someHas(aiTagsLower(profile, "domains"), toLowerCase(extractedRequirements[i]))
     \/ someHas(aiTagsLower(profile, "frameworks"), toLowerCase(extractedRequirements[i]))}

\* Skills match (up to 40 points)
skillsScore(profile, extractedSkills) ==
  IF Len(extractedSkills) > 0
  THEN times(divide(Num(Cardinality(skillMatches(profile, extractedSkills))),
                    Num(Len(extractedSkills))), 40)
  ELSE Num(0)

\* Requirements match (up to 30 points)
requirementsScore(profile, extractedRequirements) ==
  IF Len(extractedRequirements) > 0
  THEN times(divide(Num(Cardinality(requirementMatches(profile, extractedRequirements))),
                    Num(Len(extractedRequirements))), 30)
  ELSE Num(0)

\* Math.abs(a - b) on integers
absDiff(a, b) == IF a >= b THEN a - b ELSE b - a

\* The points of the experience match for whole numbers of years;
\* filterExperience * 0.7 is seven tenths of it.
experiencePointsOf(profileExperience, filterExperience) ==
  IF absDiff(profileExperience, filterExperience) <= 2 THEN 20
  ELSE IF absDiff(profileExperience, filterExperience) <= 4 THEN 15
  ELSE IF absDiff(profileExperience, filterExperience) <= 6 THEN 10
  ELSE IF 10 * profileExperience >= 7 * filterExperience THEN 5
  ELSE 0

\* Experience match (up to 20 points)
experienceScore(profile, derivedFilters) ==
  IF truthy(optionalField(derivedFilters, "experience"))
  THEN experiencePointsOf(profile.experience, optionalField(derivedFilters, "experience").value)
  ELSE 0

\* Location match (up to 10 points)
locationScore(profile, derivedFilters) ==
  IF truthy(optionalField(derivedFilters, "location"))
  THEN calculateLocationScore(profile.location, optionalField(derivedFilters, "location").chars)
  ELSE 0

\* Base quality score if no criteria matched
withBaseQuality(score, profile) ==
  IF score.d > 0 /\ score.n = 0
  THEN plus(score, Num(calculateBaseQualityScore(profile)))
  ELSE score

maxScore == 100

calculateMatchScoreOptimized(profile, extractedSkills, extractedRequirements, derivedFilters) ==
  mathMin(1, mathMax(0, divide(
    withBaseQuality(
      plus(plus(plus(skillsScore(profile, extractedSkills),
                     requirementsScore(profile, extractedRequirements)),
                Num(experienceScore(profile, derivedFilters))),
           Num(locationScore(profile, derivedFilters))),
      profile),
    Num(maxScore))))

(***************************************************************************)
(* TalentSearchService.calculateMatchScore, the ranking score before its   *)
(* optimisation                                                            *)
(***************************************************************************)

\* profile.aiExperience?.domains.some(...) ?? false, and the same of
\* frameworks
aiTagHas(profile, field, reqLower) ==
  IF profile.aiExperience.type = "object"
  THEN \E i \in 1..Len(profile.aiExperience[field]) :
         includes(toLowerCase(profile.aiExperience[field][i]), reqLower)
  ELSE FALSE

\* Skills match (up to 40 points)
skillsMatchPoints(profile, extractedSkills) ==
  IF Len(extractedSkills) > 0
  THEN times(divide(
         Num(Cardinality({k \in 1..Len(extractedSkills) :
               \E i \in 1..Len(profile.skills) :
                 includes(toLowerCase(profile.skills[i]), toLowerCase(extractedSkills[k]))})),
         Num(Len(extractedSkills))), 40)
  ELSE Num(0)

\* Requirements match (up to 30 points)
requirementsMatchPoints(profile, extractedRequirements) ==
  IF Len(extractedRequirements) > 0
  THEN times(divide(
         Num(Cardinality({k \in 1..Len(extractedRequirements) :
               \/ includes(toLowerCase(profile.title), toLowerCase(extractedRequirements[k]))
               \/ \E i \in 1..Len(profile.highlights) :
                    includes(toLowerCase(profile.highlights[i]),
                             toLowerCase(extractedRequirements[k]))
               \/ aiTagHas(profile, "domains", toLowerCase(extractedRequirements[k]))
               \/ aiTagHas(profile, "frameworks", toLowerCase(extractedRequirements[k]))})),
         Num(Len(extractedRequirements))), 30)
  ELSE Num(0)

\* Experience match (up to 20 points)
experienceMatchPoints(profile, derivedFilters) ==
  IF truthy(optionalField(derivedFilters, "experience"))
  THEN IF absDiff(profile.experience, derivedFilters.experience.value) <= 2 THEN 20
       ELSE IF absDiff(profile.experience, derivedFilters.experience.value) <= 4 THEN 15
       ELSE IF absDiff(profile.experience, derivedFilters.experience.value) <= 6 THEN 10
       ELSE IF 10 * profile.experience >= 7 * derivedFilters.experience.value THEN 5
       ELSE 0
  ELSE 0

\* Location match (up to 10 points), on the location map written out in
\* calculateMatchScore
locationMatchPoints(profile, derivedFilters) ==
  IF truthy(optionalField(derivedFilters, "location"))
  THEN IF toLowerCase(profile.location) = toLowerCase(derivedFilters.location.chars)
       THEN 10
       ELSE IF \E variations \in {
                   <<<<"b","a","n","g","a","l","o","r","e">>, <<"b","e","n","g","a","l","u","r","u">>, <<"b","a","n","g","a","l","u","r","u">>>>,
                   <<<<"m","u","m","b","a","i">>, <<"b","o","m","b","a","y">>>>,
                   <<<<"d","e","l","h","i">>, <<"n","e","w"," ","d","e","l","h","i">>, <<"n","c","r">>>>,
                   <<<<"h","y","d","e","r","a","b","a","d">>, <<"s","e","c","u","n","d","e","r","a","b","a","d">>>>,
                   <<<<"c","h","e","n","n","a","i">>, <<"m","a","d","r","a","s">>>>,
                   <<<<"p","u","n","e">>, <<"p","u","n","a">>>>} :
                 /\ arrayIncludes(variations, toLowerCase(derivedFilters.location.chars))
                 /\ arrayIncludes(variations, toLowerCase(profile.location))
       THEN 10
       ELSE 0
  ELSE 0

\* If no criteria were evaluated, a base score on profile quality
baseScoreAdded(score, profile) ==
  IF score.d > 0 /\ score.n = 0
  THEN Num((IF Len(profile.skills) > 0 THEN 20 ELSE 0)
         + (IF Len(profile.highlights) > 0 THEN 20 ELSE 0)
         + (IF profile.aiExperience.type = "object"
                 /\ Len(profile.aiExperience.frameworks) > 0 THEN 20 ELSE 0)
         + (IF profile.aiExperience.type = "object"
                 /\ Len(profile.aiExperience.domains) > 0 THEN 20 ELSE 0)
         + (IF profile.experience > 0 THEN 20 ELSE 0))
  ELSE score

calculateMatchScore_skillsOnly(profile, extractedSkills, extractedRequirements, derivedFilters) ==
  mathMin(1, mathMax(0, divide(
    baseScoreAdded(skillsMatchPoints(profile, extractedSkills), profile),
    Num(maxScore))))

calculateMatchScore(profile, extractedSkills, extractedRequirements, derivedFilters) ==
  mathMin(1, mathMax(0, divide(
    baseScoreAdded(
      plus(plus(plus(skillsMatchPoints(profile, extractedSkills),
                     requirementsMatchPoints(profile, extractedRequirements)),
                Num(experienceMatchPoints(profile, derivedFilters))),
           Num(locationMatchPoints(profile, derivedFilters))),
      profile),
    Num(maxScore))))

\* Profiles to rank: with and without skills, highlights and AI experience,
\* years of experience on both sides of every step of the experience match.
ProfileSkills == { <<>>, <<<<"P","y","t","h","o","n">>>>, <<<<"P","y","t","h","o","n">>, <<"P","y","T","o","r","c","h">>>> }

ProfileHighlights == { <<>>, <<<<"B","u","i","l","t"," ","N","L","P"," ","p","i","p","e","l","i","n","e","s">>>> }

AIExperiences ==
  { JsonUndefined
  , [type |-> "object", frameworks |-> <<>>, domains |-> <<>>]
  , [type |-> "object", frameworks |-> <<<<"P","y","T","o","r","c","h">>>>, domains |-> <<<<"C","o","m","p","u","t","e","r"," ","V","i","s","i","o","n">>>>] }

ProfileExperiences == {0, 3, 8, 12, 20, 21}

ProfileLocations == { <<"B","a","n","g","a","l","o","r","e">>, <<"M","u","m","b","a","i">>, <<"R","e","m","o","t","e">> }

Profiles ==
  {[title |-> <<"M","L"," ","E","n","g","i","n","e","e","r">>, skills |-> s, highlights |-> h, aiExperience |-> a,
    experience |-> e, location |-> l] :
     s \in ProfileSkills, h \in ProfileHighlights, a \in AIExperiences,
     e \in ProfileExperiences, l \in ProfileLocations}

ExtractedSkills ==
  { <<>>, <<<<"p","y","t","h","o","n">>>>, <<<<"R","u","s","t">>>>, <<<<"p","y","t","h","o","n">>, <<"r","u","s","t">>, <<"T","O","R","C","H">>>> }

ExtractedRequirements ==
  { <<>>, <<<<"v","i","s","i","o","n">>>>, <<<<"E","n","g","i","n","e","e","r">>, <<"k","u","b","e","r","n","e","t","e","s">>>>, <<<<"k","u","b","e","r","n","e","t","e","s">>>> }

FilterExperiences == {JsonUndefined} \cup {JsonNumber(y) : y \in {0, 5, 30}}

FilterLocations ==
  {JsonUndefined} \cup
  {JsonString(l) : l \in {<<>>, <<"b","e","n","g","a","l","u","r","u">>, <<"B","A","N","G","A","L","O","R","E">>, <<"b","o","m","b","a","y">>}}

DerivedFilters ==
  {JsonUndefined} \cup
  {[type |-> "object", experience |-> e, location |-> l] :
     e \in FilterExperiences, l \in FilterLocations}

RankingInit ==
  /\ callPc = "ready"
  /\ callArgs \in {[callee |-> "calculateMatchScoreOptimized", profile |-> p,
                    extractedSkills |-> s, extractedRequirements |-> r,
                    derivedFilters |-> f] :
                     p \in Profiles, s \in ExtractedSkills,
                     r \in ExtractedRequirements, f \in DerivedFilters}
  /\ callResult = Pending
  /\ MatchOff
  /\ ParseOff
  /\ BatchOff
  /\ SearchOff

\* A call of TalentSearchService.calculateMatchScoreOptimized.
CallCalculateMatchScoreOptimized ==
  /\ callPc = "ready"
  /\ callArgs.callee = "calculateMatchScoreOptimized"
  /\ callResult' =
       Return(calculateMatchScoreOptimized(callArgs.profile, callArgs.extractedSkills,
                callArgs.extractedRequirements, callArgs.derivedFilters))
  /\ callPc' = "done"
  /\ UNCHANGED <<callArgs, matchVars, parseVars, batchVars, searchVars>>

RankingNext == CallCalculateMatchScoreOptimized

SpecRanking == RankingInit /\ [][RankingNext]_vars

\* Words of job descriptions: tokens in several letter cases, a token of two
\* categories, tokens inside other tokens and inside other words, no token.
DescriptionWords ==
  { <<>>, <<"M","o","n","g","o","D","B">>, <<"K","o","t","l","i","n">>, <<"R","e","a","c","t"," ","N","a","t","i","v","e">>, <<"J","a","v","a","S","c","r","i","p","t">>, <<"a"," ","c","o","o","k">>,
    <<"T","Y","P","E","S","C","R","I","P","T">>, <<"S","Q","L"," ","S","e","r","v","e","r">>, <<"D","j","a","n","g","o">>, <<"N","e","x","t",".","j","s">>, <<"m","o","n","g","o">> }

JobDescriptions ==
  {Text(a \o <<" ","a","n","d"," ">> \o b) : a \in DescriptionWords, b \in DescriptionWords}

ExtractInit ==
  /\ callPc = "ready"
  /\ callArgs \in {[callee |-> "extractSkillsFromJobDescription", jobDescription |-> d] :
                     d \in JobDescriptions}
  /\ callResult = Pending
  /\ MatchOff
  /\ ParseOff
  /\ BatchOff
  /\ SearchOff

\* A call of SkillMatchingService.extractSkillsFromJobDescription.
CallExtractSkillsFromJobDescription ==
  /\ callPc = "ready"
  /\ callArgs.callee = "extractSkillsFromJobDescription"
  /\ callResult' = extractSkillsFromJobDescription(callArgs.jobDescription)
  /\ callPc' = "done"
  /\ UNCHANGED <<callArgs, matchVars, parseVars, batchVars, searchVars>>

ExtractNext == CallExtractSkillsFromJobDescription

SpecExtract == ExtractInit /\ [][ExtractNext]_vars

\* The calls of calculateMatchScore: those of calculateMatchScoreOptimized.
EquivalenceInit ==
  /\ callPc = "ready"
  /\ callArgs \in {[callee |-> "calculateMatchScore", profile |-> p,
                    extractedSkills |-> s, extractedRequirements |-> r,
                    derivedFilters |-> f] :
                     p \in Profiles, s \in ExtractedSkills,
                     r \in ExtractedRequirements, f \in DerivedFilters}
  /\ callResult = Pending
  /\ MatchOff
  /\ ParseOff
  /\ BatchOff
  /\ SearchOff

\* A call of TalentSearchService.calculateMatchScore.
CallCalculateMatchScore ==
  /\ callPc = "ready"
  /\ callArgs.callee = "calculateMatchScore"
  /\ callResult' =
       Return(calculateMatchScore(callArgs.profile, callArgs.extractedSkills,
                callArgs.extractedRequirements, callArgs.derivedFilters))
  /\ callPc' = "done"
  /\ UNCHANGED <<callArgs, matchVars, parseVars, batchVars, searchVars>>

EquivalenceNext == CallCalculateMatchScore

SpecEquivalence == EquivalenceInit /\ [][EquivalenceNext]_vars

(***************************************************************************)
(* TalentSearchService.searchTalent                                        *)
(***************************************************************************)

\* What parseTalentQuery returns when the oracle or the parse fails.
DefaultQueryUnderstanding == JsonObject(QueryProps(<<>>, <<>>, Num(0), NoFilters), {})

\* GroqService.parseTalentQuery: one oracle request; a rejected request, a
\* missing or empty content and a content that does not parse are caught and
\* give the default; what parses is returned as it is.
parseTalentQuery(completion) ==
  LET failed == \/ completion.kind = "error"
                \/ ~completion.present
                \/ completion.content = <<>>
      parsed == jsonParse(stripMarkdownCodeBlocks(completion.content))
  IN IF failed THEN DefaultQueryUnderstanding
     ELSE IF parsed.threw THEN DefaultQueryUnderstanding
     ELSE parsed.value

\* const { key } = nlpResult, of a value that is not null
destructured(value, key) ==
  IF value.type = "object" /\ key \in DOMAIN value.props
  THEN value.props[key] ELSE JsonUndefined

\* value || fallback and value ?? fallback on an optional integer
orElse(value, fallback) == IF truthy(value) THEN value.value ELSE fallback
nullishElse(value, fallback) ==
  IF value.type = "undefined" THEN fallback ELSE value.value

\* Math.floor on a non-negative number
mathFloor(a) == IF a.d = 0 THEN a ELSE Num(a.n \div a.d)

\* `${n}` of a non-negative integer
RECURSIVE toDecimal(_)
toDecimal(n) ==
  IF n < 10 THEN <<Digits[n + 1]>>
  ELSE toDecimal(n \div 10) \o <<Digits[(n % 10) + 1]>>

\* filters.every((f) => list.includes(f))
everyIncluded(filters, list) ==
  \A i \in 1..Len(filters) : \E j \in 1..Len(list) : list[j] = filters[i]

\* derivedFilters.aiExperience?.domains || [], and the same of frameworks
aiFilter(derivedFilters, field) ==
  IF derivedFilters.aiExperience.type = "object"
  THEN derivedFilters.aiExperience[field] ELSE <<>>

\* The predicate of the filter of filterAndScoreProfilesOptimized.
passesFilters(profile, derivedFilters) ==
  LET hasAIDomainsFilter == Len(aiFilter(derivedFilters, "domains")) > 0
      hasAIFrameworksFilter == Len(aiFilter(derivedFilters, "frameworks")) > 0
      hasEmploymentTypeFilter == truthy(derivedFilters.employmentType)
      hasAvailabilityFilter == truthy(derivedFilters.availability)
  IN /\ ~ /\ hasAIDomainsFilter
          /\ profile.aiExperience.type = "object"
          /\ ~everyIncluded(aiFilter(derivedFilters, "domains"), profile.aiExperience.domains)
     /\ ~ /\ hasAIFrameworksFilter
          /\ profile.aiExperience.type = "object"
          /\ ~everyIncluded(aiFilter(derivedFilters, "frameworks"), profile.aiExperience.frameworks)
     /\ ~ /\ hasEmploymentTypeFilter
          /\ profile.employmentPreferences.type = "object"
          /\ profile.employmentPreferences.props.type # derivedFilters.employmentType.chars
     /\ ~ /\ hasAvailabilityFilter
          /\ profile.availability # derivedFilters.availability.chars

\* filterAndScoreProfilesOptimized: reading a filter of an undefined
\* derivedFilters throws, and so does the length of undefined skills or
\* requirements once there is a profile to score.
filterAndScoreProfilesOptimized(profiles, extractedSkills, extractedRequirements, derivedFilters) ==
  IF derivedFilters.type # "object" THEN Throw(TypeError)
  ELSE IF profiles # <<>> /\ (extractedSkills.type # "array" \/ extractedRequirements.type # "array")
  THEN Throw(TypeError)
  ELSE LET scored == [i \in 1..Len(profiles) |->
                       [profiles[i] EXCEPT !.matchScore =
                          calculateMatchScoreOptimized(profiles[i], extractedSkills.items,
                            extractedRequirements.items, derivedFilters)]]
           keep(profile) == passesFilters(profile, derivedFilters)
       IN Return(SelectSeq(scored, keep))

\* The comparator of the sort: b.matchScore - a.matchScore, up to a positive
\* factor.
byMatchScore(a, b) ==
  b.matchScore.n * a.matchScore.d - a.matchScore.n * b.matchScore.d

\* a sort that puts the lowest score first
RECURSIVE sortByMatchScore_ascending(_)
sortByMatchScore_ascending(list) ==
  IF list = <<>> THEN <<>>
  ELSE LET sorted == sortByMatchScore_ascending(SubSeq(list, 1, Len(list) - 1))
           last == list[Len(list)]
           before == {i \in 1..Len(sorted) : byMatchScore(last, sorted[i]) <= 0}
           k == Cardinality(before)
       IN SubSeq(sorted, 1, k) \o <<last>> \o SubSeq(sorted, k + 1, Len(sorted))

\* filteredResults.sort((a, b) => b.matchScore - a.matchScore): the sort is
\* stable, so a profile goes after the profiles before it that score as
\* much or more.
RECURSIVE sortByMatchScore(_)
sortByMatchScore(list) ==
  IF list = <<>> THEN <<>>
  ELSE LET sorted == sortByMatchScore(SubSeq(list, 1, Len(list) - 1))
           last == list[Len(list)]
           before == {i \in 1..Len(sorted) : byMatchScore(sorted[i], last) <= 0}
           k == Cardinality(before)
       IN SubSeq(sorted, 1, k) \o <<last>> \o SubSeq(sorted, k + 1, Len(sorted))

\* value || "unknown"
orUnknown(value) == IF value = <<>> THEN <<"u","n","k","n","o","w","n">> ELSE value

\* One distribution of calculateDistributionsOptimized: how many profiles
\* there are of each value of the field.
distribution(profiles, field) ==
  [value \in {orUnknown(profiles[i][field]) : i \in 1..Len(profiles)} |->
     Cardinality({i \in 1..Len(profiles) : orUnknown(profiles[i][field]) = value})]

calculateDistributionsOptimized(profiles) ==
  [bySeniority |-> distribution(profiles, "seniority"),
   byLocation |-> distribution(profiles, "location"),
   byAvailability |-> distribution(profiles, "availability")]

\* The page and the page size searchTalent asks GitHubService.searchUsers
\* for.
searchUsersArguments(query) ==
  [query |-> query.query,
   page |-> plus(mathFloor(divide(Num(orElse(query.offset, 0)), Num(orElse(query.limit, 10)))), Num(1)),
   perPage |-> orElse(query.limit, 10)]

\* searchTalent once both requests have resolved.
searchTalent(query, understanding, github) ==
  IF understanding.type = "null" THEN Throw(TypeError)
  ELSE
    LET extractedSkills == destructured(understanding, "extractedSkills")
        extractedRequirements == destructured(understanding, "extractedRequirements")
        confidence == destructured(understanding, "confidence")
        derivedFilters == destructured(understanding, "derivedFilters")
        filtered == filterAndScoreProfilesOptimized(github.profiles, extractedSkills,
                      extractedRequirements, derivedFilters)
        filteredResults == sortByMatchScore(filtered.value)
        transformedResults ==
          [i \in 1..Len(filteredResults) |->
             [filteredResults[i] EXCEPT !.experience = toDecimal(@) \o <<" ","y","e","a","r","s">>]]
    IN IF filtered.threw THEN filtered
       ELSE Return(
         [results |-> transformedResults,
          total |-> github.total,
          page |-> plus(mathFloor(divide(Num(nullishElse(query.offset, 0)),
                                         Num(nullishElse(query.limit, 10)))), Num(1)),
          limit |-> nullishElse(query.limit, 10),
          searchMetadata |->
            [queryUnderstanding |->
               [extractedSkills |-> extractedSkills,
                extractedRequirements |-> extractedRequirements,
                confidence |-> confidence],
             matchDistribution |-> calculateDistributionsOptimized(filteredResults)]])

\* Profiles as GitHubService.createLightweightProfile makes them: open to
\* offers, full-time, with and without skills, highlights and AI experience.
GithubProfile(id, skills, highlights, aiExperience, experience, location, seniority) ==
  [id |-> id, title |-> <<"M","L"," ","E","n","g","i","n","e","e","r">>, skills |-> skills, highlights |-> highlights,
   aiExperience |-> aiExperience, experience |-> experience, location |-> location,
   availability |-> <<"o","p","e","n">>,
   employmentPreferences |-> JsonObject([type |-> <<"f","u","l","l","-","t","i","m","e">>], {}),
   seniority |-> seniority, matchScore |-> Num(0)]

FullAIExperience ==
  [type |-> "object", frameworks |-> <<<<"P","y","T","o","r","c","h">>>>, domains |-> <<<<"C","o","m","p","u","t","e","r"," ","V","i","s","i","o","n">>>>]

GithubProfiles ==
  { GithubProfile("ada", <<<<"P","y","t","h","o","n">>>>, <<>>, JsonUndefined, 3, <<"B","a","n","g","a","l","o","r","e">>, <<"m","i","d">>),
    GithubProfile("bob", <<>>, <<<<"B","u","i","l","t"," ","N","L","P"," ","p","i","p","e","l","i","n","e","s">>>>, FullAIExperience, 8, <<"M","u","m","b","a","i">>, <<"s","e","n","i","o","r">>),
    GithubProfile("cyd", <<<<"P","y","t","h","o","n">>, <<"P","y","T","o","r","c","h">>>>, <<<<"B","u","i","l","t"," ","N","L","P"," ","p","i","p","e","l","i","n","e","s">>>>, FullAIExperience, 12,
                  <<"B","a","n","g","a","l","o","r","e">>, <<"l","e","a","d">>),
    GithubProfile("dee", <<>>, <<>>, [type |-> "object", frameworks |-> <<>>, domains |-> <<>>], 0,
                  <<"R","e","m","o","t","e">>, <<"j","u","n","i","o","r">>),
    GithubProfile("eve", <<<<"P","y","t","h","o","n">>>>, <<>>, [type |-> "object", frameworks |-> <<>>, domains |-> <<>>],
                  20, <<"M","u","m","b","a","i">>, <<"s","e","n","i","o","r">>) }

\* How many profiles a page of GitHub's search holds.
MaxProfiles == 2

\* The pages: lists of different users.
RECURSIVE ProfileLists(_)
ProfileLists(n) ==
  IF n = 0 THEN {<<>>}
  ELSE ProfileLists(n - 1) \cup
       {Append(list, p) : list \in {l \in ProfileLists(n - 1) : Len(l) = n - 1},
                          p \in GithubProfiles}

DistinctProfileLists ==
  {list \in ProfileLists(MaxProfiles) :
     \A i, j \in 1..Len(list) : list[i].id = list[j].id => i = j}

SearchQueries ==
  {[query |-> <<"p","y","t","h","o","n"," ","e","n","g","i","n","e","e","r","s">>, limit |-> l, offset |-> o] :
     l \in {JsonUndefined, JsonNumber(0), JsonNumber(2)},
     o \in {JsonUndefined, JsonNumber(0), JsonNumber(3)}}

\* What the oracle does with the query-understanding request.
QueryPayloads ==
  { <<"{python in bengaluru}">>, <<"{vision engineer}">>, <<"{immediate contractor}">>,
    <<"{immediately available}">>, <<"{anyone}">>,
    <<"{python in bengaluru without derivedFilters}">>,
    <<"{python in bengaluru without extractedSkills}">>,
    <<"null">>, <<"H","e","r","e"," ","a","r","e"," ","t","h","e"," ","f","i","l","t","e","r","s",":">> }

QueryCompletions ==
  {CompletionError, CompletionNoContent, CompletionContent(<<>>)}
  \cup {CompletionContent(p) : p \in QueryPayloads}
  \cup {CompletionContent(Fence \o JsonTag \o <<"\n">> \o p \o <<"\n">> \o Fence) :
          p \in QueryPayloads}

SearchInit ==
  /\ searchPc = "received"
  /\ searchQuery \in SearchQueries
  /\ queryCompletion = Pending
  /\ nlpResult = Pending
  /\ githubRequest = Pending
  /\ githubResponse = Pending
  /\ searchResult = Pending
  /\ MatchOff
  /\ ParseOff
  /\ BatchOff
  /\ CallOff

\* searchTalent starts both requests.
SearchStart ==
  /\ searchPc = "received"
  /\ githubRequest' = searchUsersArguments(searchQuery)
  /\ searchPc' = "awaiting"
  /\ UNCHANGED <<searchQuery, queryCompletion, nlpResult, githubResponse, searchResult>>
  /\ UNCHANGED <<matchVars, parseVars, batchVars, callVars>>

\* processNaturalLanguageQuery resolves with what parseTalentQuery makes of
\* the oracle's completion.
NlpSettles ==
  /\ searchPc = "awaiting"
  /\ nlpResult = Pending
  /\ \E completion \in QueryCompletions :
       /\ queryCompletion' = completion
       /\ nlpResult' = Return(parseTalentQuery(completion))
  /\ UNCHANGED <<searchPc, searchQuery, githubRequest, githubResponse, searchResult>>
  /\ UNCHANGED <<matchVars, parseVars, batchVars, callVars>>

\* GitHubService.searchUsers resolves with a page of profiles and the total
\* of the search, or rejects.
GithubSettles ==
  /\ searchPc = "awaiting"
  /\ githubResponse = Pending
  /\ \/ \E profiles \in DistinctProfileLists, more \in {0, 40} :
          githubResponse' = Return([profiles |-> profiles, total |-> Len(profiles) + more])
     \/ githubResponse' = Throw(<<"G","i","t","H","u","b"," ","s","e","a","r","c","h"," ","f","a","i","l","e","d">>)
  /\ UNCHANGED <<searchPc, searchQuery, queryCompletion, nlpResult, githubRequest, searchResult>>
  /\ UNCHANGED <<matchVars, parseVars, batchVars, callVars>>

\* Promise.all rejects as soon as the GitHub search rejects; searchTalent
\* logs the error and throws it again.
SearchRejects ==
  /\ searchPc = "awaiting"
  /\ githubResponse # Pending
  /\ githubResponse.threw
  /\ searchResult' = Throw(githubResponse.error)
  /\ searchPc' = "done"
  /\ UNCHANGED <<searchQuery, queryCompletion, nlpResult, githubRequest, githubResponse>>
  /\ UNCHANGED <<matchVars, parseVars, batchVars, callVars>>

\* Both requests have resolved: the rest of searchTalent.
SearchResponds ==
  /\ searchPc = "awaiting"
  /\ nlpResult # Pending
  /\ githubResponse # Pending
  /\ ~githubResponse.threw
  /\ searchResult' = searchTalent(searchQuery, nlpResult.value, githubResponse.value)
  /\ searchPc' = "done"
  /\ UNCHANGED <<searchQuery, queryCompletion, nlpResult, githubRequest, githubResponse>>
  /\ UNCHANGED <<matchVars, parseVars, batchVars, callVars>>

SearchNext ==
  \/ SearchStart
  \/ NlpSettles
  \/ GithubSettles
  \/ SearchRejects
  \/ SearchResponds

SpecSearch == SearchInit /\ [][SearchNext]_vars

Init ==
  \/ MatchInit \/ ParseInit \/ BatchInit
  \/ SimilarityInit \/ RoundTripInit \/ ConfidenceInit
  \/ ExperienceInit \/ SeniorityInit \/ RankingInit
  \/ ExtractInit \/ EquivalenceInit \/ SearchInit

Next ==
  \/ MatchNext \/ ParseNext \/ BatchNext
  \/ SimilarityNext \/ ConfidenceNext \/ ExperienceNext \/ SeniorityNext
  \/ RankingNext \/ ExtractNext \/ EquivalenceNext \/ SearchNext

Spec == Init /\ [][Next]_vars


(***************************************************************************)
(* Claims about calculateSkillMatch                                        *)
(***************************************************************************)

MatchReturned == matchPc = "done" /\ ~matchResult.threw
MatchThrew == matchPc = "done" /\ matchResult.threw

IsScenarioCall ==
  /\ matchPc = "done"
  /\ resumeSkills = ScenarioSkills
  /\ jobDescription.kind = "array"
  /\ jobDescription.items = ScenarioRequired

\* C1: calculateSkillMatch(skills, []) returns matchPercentage = 0 and
\* fitScore.technical = 100, every number defined, without raising.
C1_EmptyRequirementList ==
  (matchPc = "done" /\ jobDescription.kind = "array" /\ jobDescription.items = <<>>)
    => /\ ~matchResult.threw
       /\ matchResult.value.matchPercentage = Num(0)
       /\ matchResult.value.fitScore.technical = Num(100)
       /\ ~isNaN(matchResult.value.overallMatch)
       /\ ~isNaN(matchResult.value.fitScore.experience)
       /\ ~isNaN(matchResult.value.fitScore.overall)

\* C2: calculateSkillMatch returns a MatchResult, not an error, for an array of
\* requirement strings and for a free-text job description alike.
C2_BothRequirementKindsReturn ==
  matchPc = "done" => ~matchResult.threw

\* The shape of a MatchResult: its numbers are finite integers (d = 1), its
\* lists are arrays.
MatchedSkillRecords ==
  [skill : Seq(STRING), required : BOOLEAN,
   candidateLevel : {"Advanced", "Intermediate", "Beginner"},
   requiredLevel : {"Required"}, match : {0, 70, 80, 100}]

MissingSkillRecords ==
  [skill : Seq(STRING),
   importance : {"Critical", "Important", "Nice to have"},
   alternatives : Seq(Seq(STRING))]

IsNumeric(x) == x.d = 1 /\ x.n \in 0..100

\* C3: every MatchResult calculateSkillMatch returns has overallMatch,
\* matchPercentage and the three fitScore components numeric (never NaN), and
\* every skill list an array (empty when there is nothing to list).
C3_MatchResultWellFormed ==
  MatchReturned =>
    LET r == matchResult.value
    IN /\ IsNumeric(r.overallMatch)
       /\ IsNumeric(r.matchPercentage)
       /\ IsNumeric(r.fitScore.technical)
       /\ IsNumeric(r.fitScore.experience)
       /\ IsNumeric(r.fitScore.overall)
       /\ r.matchedSkills \in Seq(MatchedSkillRecords)
       /\ r.missingSkills \in Seq(MissingSkillRecords)
       /\ Len(r.strengthAreas) <= 3
       /\ Len(r.improvementAreas) <= 5
       /\ Len(r.recommendations) <= 4

\* C3's case: a returned result with no required skill at all (the division by
\* the number of required skills is the one that could give NaN) for a
\* candidate that has skills.
C3_Witness ==
  /\ MatchReturned
  /\ resumeSkills # EmptySkills
  /\ Len(matchResult.value.matchedSkills) + Len(matchResult.value.missingSkills) = 0
  /\ matchResult.value.fitScore.technical = Num(100)

\* C4: for the scenario candidate and the requirement
\* [React, Node.js, TypeScript, Docker, Kubernetes], calculateSkillMatch
\* returns matchPercentage = 60.
C4_ScenarioMatchPercentage ==
  IsScenarioCall =>
    /\ ~matchResult.threw
    /\ matchResult.value.matchPercentage = Num(60)

\* the skill names of a list of matched or missing records
SkillsOf(records) == {records[i].skill : i \in 1..Len(records)}

\* C5: in the same scenario the matched skills include React and Node.js, the
\* missing skills include Docker and Kubernetes, and the missing record of
\* Docker has importance Important and no alternatives.
C5_ScenarioMatchedAndMissing ==
  IsScenarioCall =>
    /\ ~matchResult.threw
    /\ LET r == matchResult.value
       IN /\ {toLowerCase(ScenarioRequired[1]), toLowerCase(ScenarioRequired[2])}
               \subseteq {toLowerCase(s) : s \in SkillsOf(r.matchedSkills)}
          /\ {toLowerCase(ScenarioRequired[4]), toLowerCase(ScenarioRequired[5])}
               \subseteq {toLowerCase(s) : s \in SkillsOf(r.missingSkills)}
          /\ \A i \in 1..Len(r.missingSkills) :
               toLowerCase(r.missingSkills[i].skill) = toLowerCase(ScenarioRequired[4])
                 => /\ r.missingSkills[i].importance = "Important"
                    /\ r.missingSkills[i].alternatives = <<>>

(***************************************************************************)
(* Claims about parseResume                                                *)
(***************************************************************************)

\* parseResume ended after the oracle answered its request
ParseAnswered == parsePc = "done" /\ oracleRequests = 1

\* a = b for finite numbers
numEq(a, b) == a.d > 0 /\ b.d > 0 /\ a.n * b.d = b.n * a.d

\* The document is the empty one: no personal information, no summary, six
\* empty skill categories, no experience, education, projects, certifications.
IsEmptyDocument(doc) ==
  /\ doc.type = "object"
  /\ doc.nulls = {}
  /\ without(without(doc.props, "extractedText"), "confidence") = EmptyResume.props

\* the oracle raised, gave no content, or gave text that is not JSON
OracleFailed ==
  \/ oracleAnswer.completion.kind = "error"
  \/ ~oracleAnswer.completion.present
  \/ oracleAnswer.completion.content = <<>>
  \/ ~oracleAnswer.payload.json

\* C6: when the oracle raises, returns no content, or returns text that is not
\* JSON, parseResume returns the empty document with confidence 0 and the
\* extracted text; it does not throw.
C6_OracleFailureGivesEmptyDocument ==
  (ParseAnswered /\ OracleFailed) =>
    /\ ~parseResult.threw
    /\ IsEmptyDocument(parseResult.value)
    /\ numEq(parseResult.value.props.confidence, Num(0))
    /\ parseResult.value.props.extractedText = file.buffer

\* C6's case: the oracle's call rejected and parseResume returned.
C6_Witness ==
  /\ ParseAnswered
  /\ oracleAnswer.completion.kind = "error"
  /\ ~parseResult.threw
  /\ IsEmptyDocument(parseResult.value)

\* A document of the schema: every section there, no skill category null.
IsWellFormedDocument(doc) ==
  /\ doc.type = "object"
  /\ {"personalInfo", "summary", "skills", "experience", "education",
      "projects", "certifications", "extractedText", "confidence"} \subseteq DOMAIN doc.props
  /\ doc.nulls = {}
  /\ DOMAIN doc.props.skills = SkillKeys

\* C7: whatever the oracle answers, JSON that does not conform to the schema
\* included, parseResume returns a well-formed document in which no skill
\* category is null, and does not throw.
C7_AnyAnswerGivesWellFormedDocument ==
  ParseAnswered =>
    /\ ~parseResult.threw
    /\ IsWellFormedDocument(parseResult.value)

\* C10: a response that holds a JSON payload inside a fence, with or without
\* the json tag and with white space around the fence and the payload, gives
\* what the payload alone gives as a response.
C10_FencedPayloadAsBare ==
  (ParseAnswered /\ oracleAnswer.fence \in {"plain", "json"} /\ oracleAnswer.payload.json)
    => parseResult =
         parseExtractedText(file.buffer, CompletionContent(oracleAnswer.payload.text))

\* C10's case: a full resume in a json-tagged fence, a newline after the tag
\* and white space after the closing fence, structured as the resume.
C10_Witness ==
  /\ ParseAnswered
  /\ oracleAnswer.fence = "json"
  /\ oracleAnswer.payload.text = <<"{resume}">>
  /\ oracleAnswer.completion.content =
       Fence \o JsonTag \o <<"\n", "{resume}", "\n">> \o Fence \o <<" ">>
  /\ ~parseResult.threw
  /\ parseResult.value.props.skills = ScenarioSkills
  /\ numEq(parseResult.value.props.confidence, Rat(85, 100))

(***************************************************************************)
(* Claims about batchAnalyzeResumes                                        *)
(***************************************************************************)

\* the batch was analyzed and answered
BatchAnswered == batchPc = "responded" /\ response.status = 200

\* the per-file results of the response
BatchResults ==
  IF request.revision = "requiredSkills" THEN response.body.data.results
  ELSE response.body.data

\* the k-th oracle request of file i was answered as asked: a resume to
\* parseResume, a skill analysis to extractSkills
AnsweredAsAsked(i, k) ==
  /\ docs[i].completions[k].kind = "content"
  /\ docs[i].completions[k].content =
       (IF k = 1 THEN <<"{resume}">> ELSE <<"{skill analysis}">>)

\* both oracle requests of file i were answered as asked
OracleSucceededFor(i) ==
  /\ Len(docs[i].completions) = 2
  /\ \A k \in 1..2 : AnsweredAsAsked(i, k)

\* an oracle request of file i failed, and the other one failed too or was
\* answered as asked
OracleFailedFor(i) ==
  /\ Len(docs[i].completions) = 2
  /\ \E k \in 1..2 : docs[i].completions[k].kind = "error"
  /\ \A k \in 1..2 : docs[i].completions[k].kind = "error" \/ AnsweredAsAsked(i, k)

\* Three files; the oracle fails for the second and succeeds for the others.
SecondOracleFails ==
  /\ BatchAnswered
  /\ Len(docs) = 3
  /\ OracleSucceededFor(1)
  /\ OracleFailedFor(2)
  /\ OracleSucceededFor(3)

\* a non-empty requiredSkills array came with the request
SkillMatchRequested ==
  request.revision = "requiredSkills" /\ shouldAnalyzeSkillMatch(request.requirement)

CompletionOf(i, k) ==
  IF Len(docs[i].completions) >= k THEN docs[i].completions[k] ELSE CompletionError

\* What the callback gives for file i alone, from the file and the
\* completions of its own oracle requests.
OwnResult(i) ==
  IF request.revision = "requiredSkills"
  THEN analyzeFile(request.files.list[i], CompletionOf(i, 1), CompletionOf(i, 2),
                   request.requirement)
  ELSE matchFile(request.files.list[i], CompletionOf(i, 1), CompletionOf(i, 2),
                 request.requirement)

\* C9: however the callbacks of the N files of a batch interleave, the
\* response holds N results in the order of the files, each the result its
\* file and its own oracle completions give, whatever the other files did;
\* the batch is answered, and in the summary successful + failed = total = N,
\* with successful the number of results that are successes.
C9_BatchIsolation ==
  (batchPc = "responded" /\ docs # <<>>) =>
    LET files == request.files.list
    IN /\ response.status = 200
       /\ Len(BatchResults) = Len(files)
       /\ \A i \in 1..Len(files) :
            /\ BatchResults[i].fileName = files[i].originalname
            /\ BatchResults[i] = OwnResult(i)
       /\ request.revision = "requiredSkills" =>
            LET summary == response.body.data.summary
            IN /\ summary.total = Len(files)
               /\ summary.successful + summary.failed = summary.total
               /\ summary.successful =
                    Cardinality({i \in 1..Len(files) : BatchResults[i].success})

\* C9's case: three files, the second of which failed (the oracle's JSON for it
\* lacks the skills) after the third had settled, between two successes.
C9_Witness ==
  /\ BatchAnswered
  /\ request.revision = "requiredSkills"
  /\ Len(docs) = 3
  /\ BatchResults[1].success
  /\ ~BatchResults[2].success
  /\ BatchResults[3].success
  /\ response.body.data.summary.successful = 2
  /\ response.body.data.summary.failed = 1

(***************************************************************************)
(* Claims about calculateSkillSimilarity                                   *)
(***************************************************************************)

SimilarityReturned ==
  callPc = "done" /\ callArgs.callee = "calculateSkillSimilarity"

EqualIgnoringCase(a, b) == toLowerCase(a) = toLowerCase(b)

ContainsEitherWay(a, b) ==
  \/ includes(toLowerCase(a), toLowerCase(b))
  \/ includes(toLowerCase(b), toLowerCase(a))

\* a and b appear together in the synonym map: one is a key of the map and the
\* other is listed under that key.
TogetherInSynonymMap(a, b) ==
  \E i \in 1..Len(similarityMap) :
    \E j \in 1..Len(similarityMap[i].alternatives) :
      {toLowerCase(a), toLowerCase(b)}
        = {similarityMap[i].key, similarityMap[i].alternatives[j]}

\* C11: similarity(candidateSkill, requiredSkill) is one of 0, 70, 80, 100:
\* 100 exactly when the two strings are equal ignoring case; 80 exactly when
\* they are not but one contains the other; 70 exactly when neither holds and
\* the two appear together in the synonym map; 0 otherwise.
C11_SimilarityTiers ==
  SimilarityReturned =>
    LET c == callArgs.candidateSkill
        r == callArgs.requiredSkill
        s == callResult.value
    IN /\ s \in {0, 70, 80, 100}
       /\ (s = 100) <=> EqualIgnoringCase(c, r)
       /\ (s = 80) <=> (~EqualIgnoringCase(c, r) /\ ContainsEitherWay(c, r))
       /\ (s = 70) <=> /\ ~EqualIgnoringCase(c, r)
                       /\ ~ContainsEitherWay(c, r)
                       /\ TogetherInSynonymMap(c, r)

\* C11's case: the order decides, a pair that is in the synonym map and of
\* which one string contains the other scores 80.
C11_Witness ==
  /\ SimilarityReturned
  /\ ~EqualIgnoringCase(callArgs.candidateSkill, callArgs.requiredSkill)
  /\ ContainsEitherWay(callArgs.candidateSkill, callArgs.requiredSkill)
  /\ TogetherInSynonymMap(callArgs.candidateSkill, callArgs.requiredSkill)
  /\ callResult.value = 80

\* the one skill the round trip is about
RoundTripSkill ==
  IF jobDescription.kind = "string" THEN jobDescription.text
  ELSE jobDescription.items[1]

IsRoundTripCall ==
  /\ matchPc = "done"
  /\ \E c \in 1..Len(SkillCategoryKeys) :
       resumeSkills = OnlySkill(RoundTripSkill, SkillCategoryKeys[c])

\* C12: similarity(x, x) = 100 for every non-empty string x whatever the
\* letter case of either side, and matching a candidate whose skills consist
\* of a taxonomy token x against a requirement naming x yields a matched
\* record for x with similarity 100.
C12_IdentityAndRoundTrip ==
  /\ (SimilarityReturned
        /\ callArgs.candidateSkill # <<>>
        /\ EqualIgnoringCase(callArgs.candidateSkill, callArgs.requiredSkill))
       => callResult.value = 100
  /\ IsRoundTripCall
       => /\ ~matchResult.threw
          /\ \E i \in 1..Len(matchResult.value.matchedSkills) :
               /\ matchResult.value.matchedSkills[i].skill = RoundTripSkill
               /\ matchResult.value.matchedSkills[i].match = 100

(***************************************************************************)
(* Claims about calculateConfidence                                        *)
(***************************************************************************)

ConfidenceReturned ==
  callPc \in {"done", "populated"} /\ callArgs.callee = "calculateConfidence"

\* a <= b on finite fractions
numLeq(a, b) == a.n * b.d <= b.n * a.d

\* The points of the rubric, counted from the document.
RubricPoints(d) ==
  LET skillCount == Len(d.skills.technical) + Len(d.skills.frameworks)
                    + Len(d.skills.languages) + Len(d.skills.tools)
                    + Len(d.skills.databases) + Len(d.skills.cloud)
      bullets == {i \in 1..Len(d.experience) : Len(d.experience[i].description) >= 1}
      graduated == {i \in 1..Len(d.education) :
                      d.education[i].degree # <<>> /\ d.education[i].institution # <<>>}
  IN 5 * Cardinality({f \in PersonalInfoFields : d.personalInfo[f] # <<>>})
     + (IF 2 * skillCount <= 25 THEN 2 * skillCount ELSE 25)
     + (IF Len(d.experience) >= 1 THEN 15 ELSE 0)
     + (IF bullets # {} THEN 10 ELSE 0)
     + (IF Len(d.education) >= 1 THEN 10 ELSE 0)
     + (IF graduated # {} THEN 5 ELSE 0)
     + (IF Len(d.projects) >= 1 THEN 10 ELSE 0)
     + (IF Len(d.summary) > 50 THEN 5 ELSE 0)

\* C13: the confidence of a structured resume is min(1, points / 100) for the
\* points of the rubric, and lies in [0, 1].
C13_ConfidenceRubric ==
  ConfidenceReturned =>
    LET points == RubricPoints(callArgs.parsedData.props)
    IN /\ ~callResult.threw
       /\ numEq(callResult.value,
                IF points >= 100 THEN Num(1) ELSE Rat(points, 100))
       /\ numLeq(Num(0), callResult.value)
       /\ numLeq(callResult.value, Num(1))

\* C13's case: a document with more skills than the cap of 25 points counts,
\* and every part of the rubric earned: the confidence is 1.
C13_Witness ==
  /\ ConfidenceReturned
  /\ totalSkillsOf(callArgs.parsedData) * 2 > 25
  /\ RubricPoints(callArgs.parsedData.props) = 100
  /\ numEq(callResult.value, Num(1))

\* C14: populating one more optional field of a document, everything else
\* unchanged, never lowers the confidence.
C14_ConfidenceMonotone ==
  [][(callPc = "done" /\ callPc' = "populated" /\ callArgs.callee = "calculateConfidence")
       => /\ ~callResult'.threw
          /\ numLeq(callResult.value, callResult'.value)]_vars

\* C14's case: a field was populated and the confidence rose.
C14_Witness ==
  /\ callPc = "populated"
  /\ callArgs.callee = "calculateConfidence"
  /\ Len(callArgs.parsedData.props.summary) = 51
  /\ numEq(callResult.value, Rat(5, 100))

(***************************************************************************)
(* Claims about calculateExperienceYears and determineSeniority            *)
(***************************************************************************)

ExperienceReturned ==
  callPc \in {"done", "moved"} /\ callArgs.callee = "calculateExperienceYears"

\* the value is a string that writes a date
IsDate(value) == value.type = "string" /\ parseDate(value.chars).valid

\* the entry has its start date, and its end date unless it is current
IsDated(exp) == IsDate(exp.startDate) /\ (exp.current \/ IsDate(exp.endDate))

\* (endYear - startYear) * 12 + (endMonth - startMonth), not below 0, for the
\* years and months the entry's dates write, the end being now when current
WrittenMonths(exp, now) ==
  LET start == parseDate(exp.startDate.chars)
      end == IF exp.current THEN now ELSE parseDate(exp.endDate.chars)
      months == (end.year - start.year) * 12 + (end.month - start.month)
  IN IF months > 0 THEN months ELSE 0

\* months / 12 rounded to one decimal
YearsToOneDecimal(months) == Rat((20 * months + 12) \div 24, 10)

\* C15: totalYears is the sum over the entries of
\* max(0, (endYear - startYear) * 12 + (endMonth - startMonth)), the end being
\* now for a current entry whatever its end date, divided by 12 and rounded to
\* one decimal; the scenario history gives 3.9 at June 2024.
C15_TotalYears ==
  (ExperienceReturned /\ \A i \in 1..Len(callArgs.experiences) : IsDated(callArgs.experiences[i]))
    => LET h == callArgs.experiences
           months == sum([i \in 1..Len(h) |-> WrittenMonths(h[i], callArgs.clock.now)])
       IN /\ numEq(callResult.value, YearsToOneDecimal(months))
          /\ h = ScenarioHistory => numEq(callResult.value, Rat(39, 10))

\* the entries of the history that are dated
Dated(h) == SelectSeq(h, IsDated)

\* C16: an entry whose start date, or end date when it is not current, is
\* unparseable or absent adds nothing to totalYears, which is what the dated
\* entries alone give, and the computation does not raise.
C16_UndatedEntriesAddNothing ==
  ExperienceReturned =>
    /\ ~callResult.threw
    /\ numEq(callResult.value,
             calculateExperienceYears(Dated(callArgs.experiences), callArgs.clock))

\* C17: moving the end date of one entry later, its start date and the other
\* entries unchanged, never decreases totalYears.
C17_TotalYearsMonotone ==
  [][(callPc = "done" /\ callPc' = "moved" /\ callArgs.callee = "calculateExperienceYears")
       => numLeq(callResult.value, callResult'.value)]_vars

\* C17's case: the end of an entry was moved to March 2023, 33 months after
\* its start, and the total rose to 2.8 years.
C17_Witness ==
  /\ callPc = "moved"
  /\ callArgs.callee = "calculateExperienceYears"
  /\ callArgs.experiences = <<Experience(JsonString(<<"2","0","2","0","-","0","6">>), JsonString(<<"2","0","2","3","-","0","3","-","0","1">>), FALSE)>>
  /\ numEq(callResult.value, Rat(28, 10))

SeniorityReturned == callPc = "done" /\ callArgs.callee = "determineSeniority"

\* some position contains lead, manager or principal, or some description
\* bullet contains team or mentor, ignoring case
ShowsLeadership(experiences) ==
  \/ \E i \in 1..Len(experiences) :
       \E word \in {<<"l","e","a","d">>, <<"m","a","n","a","g","e","r">>, <<"p","r","i","n","c","i","p","a","l">>} :
         includes(toLowerCase(experiences[i].position), word)
  \/ \E i \in 1..Len(experiences) :
       \E j \in 1..Len(experiences[i].description) :
         \E word \in {<<"t","e","a","m">>, <<"m","e","n","t","o","r">>} :
           includes(toLowerCase(experiences[i].description[j]), word)

\* C18: seniority(years, experiences) is principal for years >= 8 with
\* leadership, else lead for years >= 6 with leadership, else senior for
\* years >= 4, else mid for years >= 2, else junior; below 6 years leadership
\* changes nothing.
C18_SeniorityRules ==
  SeniorityReturned =>
    LET tenths == callArgs.years.n
        leads == ShowsLeadership(callArgs.experiences)
        seniority == callResult.value
    IN /\ (seniority = "principal") <=> (tenths >= 80 /\ leads)
       /\ (seniority = "lead") <=> (tenths >= 60 /\ tenths < 80 /\ leads)
       /\ (seniority = "senior") <=> (tenths >= 40 /\ ~(tenths >= 60 /\ leads))
       /\ (seniority = "mid") <=> (tenths >= 20 /\ tenths < 40)
       /\ (seniority = "junior") <=> (tenths < 20)
       /\ tenths < 60 =>
            seniority = determineSeniority(callArgs.years, <<>>)

\* C18's case: nine years with leadership make a principal.
C18_Witness ==
  /\ SeniorityReturned
  /\ callArgs.years = Rat(90, 10)
  /\ ShowsLeadership(callArgs.experiences)
  /\ callResult.value = "principal"

(***************************************************************************)
(* Claims about the ranking score                                          *)
(***************************************************************************)

RankingReturned ==
  /\ callPc = "done"
  /\ callArgs.callee = "calculateMatchScoreOptimized"
  /\ ~callResult.threw

\* The filters of the query, an absent filter being undefined.
FilterOf(field) ==
  IF callArgs.derivedFilters.type = "object"
  THEN callArgs.derivedFilters[field]
  ELSE JsonUndefined

HasExperienceFilter == FilterOf("experience").type = "number" /\ FilterOf("experience").value # 0
HasLocationFilter == FilterOf("location").type = "string" /\ FilterOf("location").chars # <<>>

\* x is a substring of y, ignoring case.
WithinIgnoringCase(x, y) == includes(toLowerCase(y), toLowerCase(x))

AITags ==
  IF callArgs.profile.aiExperience = JsonUndefined THEN <<>>
  ELSE callArgs.profile.aiExperience.domains \o callArgs.profile.aiExperience.frameworks

MatchedSkills ==
  {i \in DOMAIN callArgs.extractedSkills :
     \E j \in DOMAIN callArgs.profile.skills :
        WithinIgnoringCase(callArgs.extractedSkills[i], callArgs.profile.skills[j])}

MatchedRequirements ==
  {i \in DOMAIN callArgs.extractedRequirements :
     \/ WithinIgnoringCase(callArgs.extractedRequirements[i], callArgs.profile.title)
     \/ \E j \in DOMAIN callArgs.profile.highlights :
          WithinIgnoringCase(callArgs.extractedRequirements[i], callArgs.profile.highlights[j])
     \/ \E j \in DOMAIN AITags :
          WithinIgnoringCase(callArgs.extractedRequirements[i], AITags[j])}

\* 40 x the fraction of the extracted skills found in the profile's skills
SkillsTerm ==
  IF callArgs.extractedSkills = <<>> THEN Num(0)
  ELSE Rat(40 * Cardinality(MatchedSkills), Len(callArgs.extractedSkills))

\* 30 x the fraction of the extracted requirements found in the profile
RequirementsTerm ==
  IF callArgs.extractedRequirements = <<>> THEN Num(0)
  ELSE Rat(30 * Cardinality(MatchedRequirements), Len(callArgs.extractedRequirements))

ExperienceGap ==
  IF callArgs.profile.experience >= FilterOf("experience").value
  THEN callArgs.profile.experience - FilterOf("experience").value
  ELSE FilterOf("experience").value - callArgs.profile.experience

ExperienceTerm ==
  IF ~HasExperienceFilter THEN Num(0)
  ELSE IF ExperienceGap <= 2 THEN Num(20)
  ELSE IF ExperienceGap <= 4 THEN Num(15)
  ELSE IF ExperienceGap <= 6 THEN Num(10)
  ELSE IF 10 * callArgs.profile.experience >= 7 * FilterOf("experience").value THEN Num(5)
  ELSE Num(0)

\* The entries of the city-alias table, each a set of names of one city.
CityAliases == {{locationMap[c][i] : i \in DOMAIN locationMap[c]} : c \in DOMAIN locationMap}

LocationTerm ==
  IF ~HasLocationFilter THEN Num(0)
  ELSE IF \/ toLowerCase(callArgs.profile.location) = toLowerCase(FilterOf("location").chars)
          \/ \E city \in CityAliases :
               /\ toLowerCase(callArgs.profile.location) \in city
               /\ toLowerCase(FilterOf("location").chars) \in city
       THEN Num(10)
  ELSE Num(0)

SumOfTerms == plus(plus(SkillsTerm, RequirementsTerm), plus(ExperienceTerm, LocationTerm))

\* min(1, max(0, raw/100))
ClampedHundredth(raw) ==
  IF raw.n <= 0 THEN Num(0)
  ELSE IF raw.n >= 100 * raw.d THEN Num(1)
  ELSE Rat(raw.n, 100 * raw.d)

InUnitInterval(x) == x.d > 0 /\ 0 <= x.n /\ x.n <= x.d

BaseQuality ==
  20 * Cardinality({q \in {"skills", "highlights", "frameworks", "domains", "experience"} :
       \/ q = "skills" /\ callArgs.profile.skills # <<>>
       \/ q = "highlights" /\ callArgs.profile.highlights # <<>>
       \/ q = "frameworks" /\ callArgs.profile.aiExperience # JsonUndefined
                           /\ callArgs.profile.aiExperience.frameworks # <<>>
       \/ q = "domains" /\ callArgs.profile.aiExperience # JsonUndefined
                        /\ callArgs.profile.aiExperience.domains # <<>>
       \/ q = "experience" /\ callArgs.profile.experience > 0})

\* C19, as the specification words it: the ranking score is
\* min(1, max(0, raw/100)) and lies in [0, 1], raw being the sum of the skills,
\* requirements, experience and location terms.
C19_ScoreIsSumOfTerms ==
  RankingReturned =>
    /\ InUnitInterval(callResult.value)
    /\ numEq(callResult.value, ClampedHundredth(SumOfTerms))

\* C19, amended: the ranking score is min(1, max(0, raw/100)) and lies in
\* [0, 1], raw being the sum of the skills, requirements, experience and
\* location terms, or the base-quality score when that sum is 0.
C19_ScoreIsSumOfTermsOrBaseQuality ==
  RankingReturned =>
    /\ InUnitInterval(callResult.value)
    /\ numEq(callResult.value,
             ClampedHundredth(IF SumOfTerms.n = 0 THEN Num(BaseQuality) ELSE SumOfTerms))

\* A profile that earns points in all four terms without earning them all.
C19_Witness ==
  /\ RankingReturned
  /\ SkillsTerm.n > 0 /\ SkillsTerm.n < 40 * SkillsTerm.d
  /\ RequirementsTerm.n > 0 /\ RequirementsTerm.n < 30 * RequirementsTerm.d
  /\ ExperienceTerm = Num(5)
  /\ LocationTerm = Num(10)
  /\ toLowerCase(callArgs.profile.location) # toLowerCase(FilterOf("location").chars)

NoCriterionApplicable ==
  /\ callArgs.extractedSkills = <<>>
  /\ callArgs.extractedRequirements = <<>>
  /\ ~HasExperienceFilter
  /\ ~HasLocationFilter

\* C20: the score is that of the base quality (+20 for each of skills,
\* highlights, AI frameworks, AI domains, experience > 0) when the sum of the
\* four terms is 0 and that of the sum otherwise, and the sum is 0 only when
\* no criterion (extracted skills, extracted requirements, experience filter,
\* location filter) was applicable.
C20_BaseQualityOnlyWithoutCriteria ==
  RankingReturned =>
    /\ SumOfTerms.n = 0 => numEq(callResult.value, ClampedHundredth(Num(BaseQuality)))
    /\ SumOfTerms.n # 0 => numEq(callResult.value, ClampedHundredth(SumOfTerms))
    /\ SumOfTerms.n = 0 => NoCriterionApplicable
(***************************************************************************)
(* Claims about the records of a MatchResult                               *)
(***************************************************************************)

\* The required skills calculateSkillMatch derived from the requirement.
DerivedRequired == extractSkillsFromJobDescription(jobDescription).value

\* The candidate's skills, of all six categories.
CandidateSkills ==
  resumeSkills.technical \o resumeSkills.frameworks \o resumeSkills.languages
    \o resumeSkills.tools \o resumeSkills.databases \o resumeSkills.cloud

\* The candidate skill is equal to the required skill, contains it or is
\* contained in it, ignoring case.
CandidateMatches(candidate, required) ==
  \/ toLowerCase(candidate) = toLowerCase(required)
  \/ includes(toLowerCase(candidate), toLowerCase(required))
  \/ includes(toLowerCase(required), toLowerCase(candidate))

\* How many records of the list are about the skill.
RecordsAbout(records, skill) ==
  Cardinality({i \in 1..Len(records) : records[i].skill = skill})

\* C21: in every MatchResult each derived required skill is in exactly one of
\* matchedSkills and missingSkills (their lengths sum to the number of
\* required skills); it is in matchedSkills exactly when some candidate skill
\* of the six categories is equal to it, contains it or is contained in it,
\* ignoring case, and otherwise in missingSkills with an importance and
\* alternatives.
C21_MatchedOrMissing ==
  MatchReturned =>
    LET r == matchResult.value
    IN /\ Len(r.matchedSkills) + Len(r.missingSkills) = Len(DerivedRequired)
       /\ \A k \in 1..Len(DerivedRequired) :
            /\ RecordsAbout(r.matchedSkills, DerivedRequired[k])
                 + RecordsAbout(r.missingSkills, DerivedRequired[k]) = 1
            /\ RecordsAbout(r.matchedSkills, DerivedRequired[k]) = 1
                 <=> \E c \in 1..Len(CandidateSkills) :
                       CandidateMatches(CandidateSkills[c], DerivedRequired[k])
       /\ r.missingSkills \in Seq(MissingSkillRecords)
(***************************************************************************)
(* Claims about the oracle requests of one document                        *)
(***************************************************************************)

\* The oracle requests made for file i that have settled: the callback makes
\* one when it awaits parseResume (once the text is extracted) and one when
\* it awaits extractSkills, and keeps the completion of each.
SettledRequests(i) == Len(docs[i].completions)

\* The parse request of file i failed: the empty-document fallback was
\* produced at once, and the callback went on with it.
FallbackProduced(i) ==
  /\ docs[i].pc \in {"awaitSkills", "settled"}
  /\ docs[i].parsedResume # Pending
  /\ IsEmptyDocument(docs[i].parsedResume)
  /\ numEq(docs[i].parsedResume.props.confidence, Num(0))

ParseRequestFailed(i) ==
  SettledRequests(i) >= 1 /\ docs[i].completions[1].kind = "error"

\* C22, as stated: processing one document issues a single oracle request,
\* which is never retried; its first failure immediately produces the
\* empty-document fallback, and no second oracle request is made for the same
\* document.
C22_SingleOracleRequest ==
  \A i \in 1..Len(docs) :
    /\ SettledRequests(i) <= 1
    /\ ParseRequestFailed(i) => FallbackProduced(i)

\* C22, amended: one document gets a single oracle request of parseResume,
\* never retried, whose first failure immediately produces the empty-document
\* fallback; the batch then makes one more oracle request for the same
\* document, that of extractSkills, whether the first failed or not, and no
\* third.
C22_OneRequestPerExtraction ==
  \A i \in 1..Len(docs) :
    /\ SettledRequests(i) <= 2
    /\ SettledRequests(i) = 2 <=> (docs[i].pc = "settled" /\ docs[i].parsedResume # Pending)
    /\ docs[i].pc = "awaitParse" => SettledRequests(i) = 0
    /\ docs[i].pc = "awaitSkills" => SettledRequests(i) = 1
    /\ ParseRequestFailed(i) => FallbackProduced(i)

\* The parse request of a document failed, the fallback was produced, and the
\* request of extractSkills was made and settled all the same.
C22_Witness ==
  \E i \in 1..Len(docs) :
    /\ ParseRequestFailed(i)
    /\ FallbackProduced(i)
    /\ SettledRequests(i) = 2
\* The first candidate skill, in the order technical, frameworks, languages,
\* tools, databases, cloud, that matches the required skill.
FirstMatching(required) ==
  CandidateSkills[CHOOSE c \in 1..Len(CandidateSkills) :
                    /\ CandidateMatches(CandidateSkills[c], required)
                    /\ \A b \in 1..(c - 1) : ~CandidateMatches(CandidateSkills[b], required)]

\* C23: the similarity recorded for a matched required skill is that of the
\* first candidate skill matching it in flattening order, 100 when that one is
\* equal to it ignoring case and 80 when it only contains it or is contained
\* in it, whatever candidate skills follow, an equal one included.
C23_SimilarityOfFirstMatch ==
  MatchReturned =>
    \A k \in 1..Len(matchResult.value.matchedSkills) :
      matchResult.value.matchedSkills[k].match =
        (IF toLowerCase(FirstMatching(matchResult.value.matchedSkills[k].skill))
              = toLowerCase(matchResult.value.matchedSkills[k].skill)
         THEN 100 ELSE 80)

\* A required skill matched at 80 by a candidate skill that contains it, with
\* a candidate skill equal to it later in the list.
C23_Witness ==
  /\ MatchReturned
  /\ \E k \in 1..Len(matchResult.value.matchedSkills) :
       /\ matchResult.value.matchedSkills[k].match = 80
       /\ \E c \in 1..Len(CandidateSkills) :
            toLowerCase(CandidateSkills[c]) = matchResult.value.matchedSkills[k].skill
(***************************************************************************)
(* Claims about the category breakdown                                     *)
(***************************************************************************)

\* The skill is assigned to the category: it contains one of the category's
\* tokens or is contained in one.
AssignedTo(skill, category) ==
  \E t \in 1..Len(skillCategories[category]) :
    \/ includes(skill, skillCategories[category][t])
    \/ includes(skillCategories[category][t], skill)

\* The skills of the list that are assigned to the category.
AssignedOf(skills, category) ==
  {k \in 1..Len(skills) : AssignedTo(skills[k], category)}

\* The breakdown is that of the required skills and of the matched ones among
\* them.
IsBreakdownOf(breakdown, required, matched) ==
  /\ DOMAIN breakdown =
       {CategoryNames[c] : c \in {b \in 1..Len(CategoryNames) :
                                    AssignedOf(required, CategoryNames[b]) # {}}}
  /\ \A category \in DOMAIN breakdown :
       /\ breakdown[category].total = Cardinality(AssignedOf(required, category))
       /\ breakdown[category].matched = Cardinality(AssignedOf(matched, category))
       /\ 0 <= breakdown[category].matched
       /\ breakdown[category].matched <= breakdown[category].total
       /\ breakdown[category].total >= 1

\* the skills of the matched records, in their order
MatchedNames(records) == [k \in 1..Len(records) |-> records[k].skill]

\* C24: categoryBreakdown has an entry for a taxonomy category exactly when a
\* required skill is assigned to it by containment either way against the
\* category's tokens; total counts the required skills assigned to the
\* category, matched the matched required skills assigned to it, and
\* 0 <= matched <= total, total >= 1.
C24_CategoryBreakdown ==
  MatchReturned =>
    IsBreakdownOf(matchResult.value.categoryBreakdown,
                  extractSkillsFromJobDescription(jobDescription).value,
                  MatchedNames(matchResult.value.matchedSkills))

\* A breakdown with a category whose only required skill is assigned to it by
\* being contained in a token, a category with some of its required skills
\* matched, and a category without an entry.
C24_Witness ==
  /\ MatchReturned
  /\ \E category \in DOMAIN matchResult.value.categoryBreakdown :
       /\ matchResult.value.categoryBreakdown[category].matched >= 1
       /\ matchResult.value.categoryBreakdown[category].matched
            < matchResult.value.categoryBreakdown[category].total
  /\ "mobile" \in DOMAIN matchResult.value.categoryBreakdown
  /\ \A k \in 1..Len(matchResult.value.matchedSkills) :
       \A t \in 1..Len(skillCategories.mobile) :
         ~includes(matchResult.value.matchedSkills[k].skill, skillCategories.mobile[t])
  /\ \A k \in 1..Len(matchResult.value.missingSkills) :
       \A t \in 1..Len(skillCategories.mobile) :
         ~includes(matchResult.value.missingSkills[k].skill, skillCategories.mobile[t])
  /\ "ai_ml" \notin DOMAIN matchResult.value.categoryBreakdown
(***************************************************************************)
(* Claims about extractSkillsFromJobDescription                            *)
(***************************************************************************)

ExtractReturned ==
  /\ callPc = "done"
  /\ callArgs.callee = "extractSkillsFromJobDescription"
  /\ ~callResult.threw

\* The places of the taxonomy, category by category, and the token at each.
TaxonomyPlaces ==
  UNION {{<<c, t>> : t \in 1..Len(skillCategories[CategoryNames[c]])} :
           c \in 1..Len(CategoryNames)}

TokenAt(place) == skillCategories[CategoryNames[place[1]]][place[2]]

Before(p, q) == p[1] < q[1] \/ (p[1] = q[1] /\ p[2] < q[2])

\* The first place of the token in category-iteration order.
FirstPlace(token) ==
  CHOOSE p \in TaxonomyPlaces :
    /\ TokenAt(p) = token
    /\ \A q \in TaxonomyPlaces : TokenAt(q) = token => (q = p \/ Before(p, q))

\* C25: for a free-text requirement the derived required-skill list holds
\* exactly the taxonomy tokens that occur in the lower-cased text ('go' inside
\* 'mongo' included), each once even when it is in two categories, in the order
\* of first appearance in category-iteration order.
C25_TokensOfText ==
  ExtractReturned =>
    LET found == callResult.value
    IN /\ {found[k] : k \in 1..Len(found)} =
            {TokenAt(p) : p \in {q \in TaxonomyPlaces :
                                   includes(toLowerCase(callArgs.jobDescription.text),
                                            TokenAt(q))}}
       /\ \A j, k \in 1..Len(found) :
            j < k => /\ found[j] # found[k]
                     /\ Before(FirstPlace(found[j]), FirstPlace(found[k]))

\* A text naming MongoDB and Kotlin: go is derived from 'mongo', and kotlin, a
\* token of backend and of mobile, once.
C25_Witness ==
  /\ ExtractReturned
  /\ includes(toLowerCase(callArgs.jobDescription.text), <<"m","o","n","g","o","d","b">>)
  /\ \E k \in 1..Len(callResult.value) : callResult.value[k] = <<"g","o">>
  /\ \E k \in 1..Len(callResult.value) : callResult.value[k] = <<"k","o","t","l","i","n">>
(***************************************************************************)
(* Claims about the fit score                                              *)
(***************************************************************************)

\* The distinct skills of technical, frameworks, tools and databases.
DistinctCountedSkills ==
  LET counted == resumeSkills.technical \o resumeSkills.frameworks
                   \o resumeSkills.tools \o resumeSkills.databases
  IN {counted[k] : k \in 1..Len(counted)}

ExperienceStep(count) ==
  IF count >= 15 THEN 100
  ELSE IF count >= 10 THEN 80
  ELSE IF count >= 5 THEN 60
  ELSE IF count * 10 > 20 THEN count * 10 ELSE 20

\* overall is the average of the two scores, to the nearest whole number
IsAverageOf(overall, technical, experience) ==
  /\ overall.d = 1 /\ technical.d = 1 /\ experience.d = 1
  /\ 2 * overall.n - (technical.n + experience.n) \in {-1, 0, 1}

\* C26: fitScore.experience is 100, 80 or 60 for at least 15, 10 or 5 distinct
\* skills across technical, frameworks, tools and databases (a skill listed
\* twice counting once) and max(20, 10 x count) below 5, and fitScore.overall
\* is the average of fitScore.technical and fitScore.experience.
C26_ExperienceFitOfDistinctSkills ==
  MatchReturned =>
    /\ matchResult.value.fitScore.experience
         = Num(ExperienceStep(Cardinality(DistinctCountedSkills)))
    /\ IsAverageOf(matchResult.value.fitScore.overall,
                   matchResult.value.fitScore.technical,
                   matchResult.value.fitScore.experience)
\* C28: in every MatchResult with at least one required skill the similarity
\* of each matched record is 80 or 100, and fitScore.technical is at most
\* overallMatch.
C28_TechnicalFitAtMostOverallMatch ==
  (MatchReturned
     /\ Len(matchResult.value.matchedSkills) + Len(matchResult.value.missingSkills) >= 1)
    => /\ \A k \in 1..Len(matchResult.value.matchedSkills) :
            matchResult.value.matchedSkills[k].match \in {80, 100}
       /\ numLeq(matchResult.value.fitScore.technical, matchResult.value.overallMatch)

\* A result with a record matched at 80 and one matched at 100, some required
\* skill missing, and a technical fit below the overall match.
C28_Witness ==
  /\ MatchReturned
  /\ \E k \in 1..Len(matchResult.value.matchedSkills) :
       matchResult.value.matchedSkills[k].match = 80
  /\ \E k \in 1..Len(matchResult.value.matchedSkills) :
       matchResult.value.matchedSkills[k].match = 100
  /\ matchResult.value.missingSkills # <<>>
  /\ matchResult.value.fitScore.technical.n < matchResult.value.overallMatch.n
(***************************************************************************)
(* Claims about the two ranking implementations                            *)
(***************************************************************************)

MatchScoreReturned ==
  /\ callPc = "done"
  /\ callArgs.callee = "calculateMatchScore"
  /\ ~callResult.threw

\* C29: for every profile, with or without aiExperience, and every extracted
\* skills, extracted requirements and derived filters, calculateMatchScore
\* returns the score calculateMatchScoreOptimized returns.
C29_SameScore ==
  MatchScoreReturned =>
    numEq(callResult.value,
          calculateMatchScoreOptimized(callArgs.profile, callArgs.extractedSkills,
            callArgs.extractedRequirements, callArgs.derivedFilters))

\* A call on a profile without aiExperience in which a requirement and part
\* of the skills are matched, the location by its alias, and the experience.
C29_Witness ==
  /\ MatchScoreReturned
  /\ callArgs.profile.aiExperience = JsonUndefined
  /\ callArgs.derivedFilters # JsonUndefined
  /\ callArgs.derivedFilters.location = JsonString(<<"b","o","m","b","a","y">>)
  /\ callArgs.derivedFilters.experience = JsonNumber(5)
  /\ Len(callArgs.extractedSkills) = 3
  /\ Len(callArgs.extractedRequirements) = 2
  /\ Len(callArgs.profile.skills) = 1
  /\ callArgs.profile.experience = 12
  /\ callArgs.profile.location = <<"M","u","m","b","a","i">>
  /\ numEq(callResult.value, Rat(130, 300))
(***************************************************************************)
(* Claims about searchTalent                                               *)
(***************************************************************************)

SearchResponded == searchPc = "done" /\ ~searchResult.threw

\* The query as parseTalentQuery understood it.
Understood(key) == nlpResult.value.props[key]

\* The profile of GitHub's page that a result was made of.
ProfileOf(result) ==
  CHOOSE p \in {githubResponse.value.profiles[i] : i \in 1..Len(githubResponse.value.profiles)} :
    p.id = result.id

\* The first profile earns at least the points of the second in each of the
\* four components.
EarnsAtLeast(p, q) ==
  /\ numLeq(skillsScore(q, Understood("extractedSkills").items),
            skillsScore(p, Understood("extractedSkills").items))
  /\ numLeq(requirementsScore(q, Understood("extractedRequirements").items),
            requirementsScore(p, Understood("extractedRequirements").items))
  /\ experienceScore(q, Understood("derivedFilters")) <= experienceScore(p, Understood("derivedFilters"))
  /\ locationScore(q, Understood("derivedFilters")) <= locationScore(p, Understood("derivedFilters"))

QueryOracleFailed ==
  /\ queryCompletion # Pending
  /\ \/ queryCompletion.kind = "error"
     \/ ~queryCompletion.present
     \/ queryCompletion.content = <<>>
     \/ \E i \in 1..Len(queryCompletion.content) : queryCompletion.content[i] = ":"

\* The ranking score of a profile for the query as it was understood.
RankingScore(profile) ==
  calculateMatchScoreOptimized(profile, Understood("extractedSkills").items,
    Understood("extractedRequirements").items, Understood("derivedFilters"))

\* C30: a response of searchTalent lists its results in non-increasing order
\* of matchScore, and the matchScore of a result is the ranking score of its
\* profile for the parsed query; when the query-understanding oracle fails and
\* the GitHub search does not, searchTalent responds, with every profile of the
\* page, each scored with no extracted skills, no requirements and no filters.
C30_RankedResponse ==
  /\ SearchResponded =>
       /\ \A i, j \in 1..Len(searchResult.value.results) :
            i < j => numLeq(searchResult.value.results[j].matchScore,
                            searchResult.value.results[i].matchScore)
       /\ \A i \in 1..Len(searchResult.value.results) :
            searchResult.value.results[i].matchScore =
              RankingScore(ProfileOf(searchResult.value.results[i]))
  /\ (searchPc = "done" /\ QueryOracleFailed /\ ~githubResponse.threw) =>
       /\ ~searchResult.threw
       /\ {searchResult.value.results[i].id : i \in 1..Len(searchResult.value.results)}
            = {githubResponse.value.profiles[i].id : i \in 1..Len(githubResponse.value.profiles)}
       /\ \A i \in 1..Len(searchResult.value.results) :
            searchResult.value.results[i].matchScore =
              calculateMatchScoreOptimized(ProfileOf(searchResult.value.results[i]),
                <<>>, <<>>, NoFilters)

\* The oracle failed and the sort moved the second profile of the page ahead
\* of the first.
C30_Witness ==
  /\ SearchResponded
  /\ QueryOracleFailed
  /\ Len(searchResult.value.results) = 2
  /\ searchResult.value.results[1].id = githubResponse.value.profiles[2].id
  /\ ~numLeq(searchResult.value.results[1].matchScore, searchResult.value.results[2].matchScore)

====
